---- MODULE Spec2Model ----
(***************************************************************************)
(* Ragnoria (RO2 server emulator): the packet framing codec                *)
(* (ro2-common/src/packet/framing.rs), the ProudNet handshake handler      *)
(* (ro2-common/src/protocol/proudnet.rs), the crypto engine                *)
(* (ro2-common/src/crypto/proudnet.rs), the login server's connection      *)
(* loop (ro2-login/src/main.rs), the message dispatcher                    *)
(* (ro2-common/src/protocol/dispatcher.rs), the RMI message parser         *)
(* (ro2-common/src/packet/parser.rs) and the client patcher                *)
(* (ro2-patcher/src/main.rs).                                              *)
(*                                                                         *)
(* Bytes are the integers 0..255, byte strings are sequences of bytes.     *)
(* The specifications share the variables:                                 *)
(*   CodecSpec    - the pure functions of the frame codec applied to       *)
(*                  inputs drawn in CodecInit;                             *)
(*   Spec         - one login connection driven by a client that sends one *)
(*                  handshake frame at a time, read in arbitrary pieces;   *)
(*   EnvelopeSpec - the same connection with a client that also sends      *)
(*                  encrypted envelopes;                                   *)
(*   FramingSpec  - one login connection whose client has written a whole  *)
(*                  byte stream, read in arbitrary pieces;                 *)
(*   PolicySpec   - the test server of the packet analyzer;                *)
(*   ServerSpec   - the login server with two connections;                 *)
(*   EngineSpec   - the crypto engine applied to inputs;                   *)
(*   DispatchSpec - the message dispatcher and its handlers;               *)
(*   QuietSpec    - the connection with a client that also sends frames    *)
(*                  the server has nothing to do for;                      *)
(*   PatcherSpec  - the client patcher on an executable and its backup;    *)
(*   RmiSpec      - RmiMessage::parse applied to inputs.                   *)
(***************************************************************************)
EXTENDS Integers, Sequences, FiniteSets, TLC

VARIABLES
    \* ---- ClientConnection / ProudNetHandler / ProudNetCrypto ----
    buffer,            \* ClientConnection.buffer
    encryption_ready,  \* ProudNetHandler.encryption_ready
    session_id,        \* ProudNetHandler.session_id   (None or a u32)
    client_version,    \* ProudNetHandler.client_version (None or a u32)
    aes_key,           \* ProudNetCrypto.aes_key       (None or 16 bytes)
    task,              \* position of the connection task
    \* ---- the peer and the socket ----
    pending,           \* bytes written by the client, not yet read
    stream,            \* FramingSpec: the whole byte stream of the client
    nSent,             \* Spec: frames the client has sent so far
    \* ---- observation of the run ----
    log,               \* events of the last loop iteration, in order
    nHandled,          \* frames given to handle_packet, in total
    sent04,            \* a 0x04 EncryptionHandshake has been written
    sent06,            \* a 0x06 acknowledgment has been written
    readyCount,        \* times encryption_ready went from false to true
    scenario,          \* progress through policy, 0x05, 0x07, 0x25
    violated,          \* a protocol violation was found in the buffer
    afterViolation,    \* frames handled after a protocol violation
    behind,            \* bytes read since the end of the last handled frame
    \* ---- codec under test (CodecSpec) ----
    cPayload,          \* the payload given to the encoder
    cWidth,            \* the length width used by the encoder
    cData,             \* the bytes given to the decoder
    cOrigin,           \* how cData was made
    cPhase,            \* the step the codec run has reached
    cResult,           \* the result of PacketFrame::from_bytes(cData)
    vValue,            \* the value given to write_varint
    vBuf,              \* the bytes written by write_varint
    vOut,              \* the result of read_varint(vBuf)
    multi,             \* the frames and tail of a batch, and the result of
                       \* PacketFrame::parse_multiple on their bytes
    \* ---- the login server with several connections (ServerSpec) ----
    cryptos,           \* the ProudNetCrypto objects in memory, by address;
                       \* address 0 is the Arc<ProudNetCrypto> of main
    conns,             \* the connection tasks, by connection number
    \* ---- the crypto engine under test (EngineSpec) ----
    engine,            \* a ProudNetCrypto, the input of the call under
                       \* test and its results
    \* ---- a MessageDispatcher (DispatchSpec) ----
    dispatcher,        \* MessageDispatcher.stats and the registered handlers
    context,           \* the GameContext passed to dispatch
    dLast,             \* the last call on the dispatcher and its result
    \* ---- the client patcher (PatcherSpec) ----
    files,             \* the executable, its backup and the last command
    \* ---- the RMI message parser under test (RmiSpec) ----
    rmi                \* the input of RmiMessage::parse and its result

connVars == <<buffer, encryption_ready, session_id, client_version, aes_key,
              task, pending, stream, nSent, log, nHandled,
              sent04, sent06, readyCount, scenario, violated, afterViolation,
              behind>>

codecVars == <<cPayload, cWidth, cData, cOrigin, cPhase, cResult,
               vValue, vBuf, vOut, multi>>

sideVars == <<cryptos, conns, engine, dispatcher, context, dLast>>

toolVars == <<files, rmi>>

vars == <<connVars, codecVars, sideVars, toolVars>>

\* Option<T>: None is the empty sequence, Some(x) the sequence of x
None == <<>>

Some(x) == <<x>>

(***************************************************************************)
(* Bounds of the model.                                                    *)
(***************************************************************************)
MaxLen == 3          \* small payload lengths 0..MaxLen are all enumerated
MaxCut == 12         \* prefixes of up to MaxCut bytes are all enumerated
MaxFrames == 5       \* frames one client sends on a connection (Spec)
MaxStream == 2       \* items in the client's byte stream (FramingSpec)
MaxBatch == 2        \* frames in one buffer given to parse_multiple
MaxConnFrames == 3   \* frames each client sends (ServerSpec)
MaxBlocks == 2       \* AES inputs of 0..16*MaxBlocks+1 bytes are enumerated
MaxDispatch == 3     \* dispatch calls between two reset_stats (DispatchSpec)
MaxBody == 4         \* payload bytes behind an RMI header (RmiSpec)

(***************************************************************************)
(* Byte helpers (u8/u16/u32 little endian, as bytes::Buf / BufMut).        *)
(* A u8, a u16 or a length is an integer.  A u32 is the record of its two  *)
(* 16-bit halves [hi, lo], so that every 32-bit value is represented.      *)
(***************************************************************************)
Byte == 0..255

\* the u32 of a non-negative integer below 2^31
U32(n) == [hi |-> (n \div 65536) % 65536, lo |-> n % 65536]

\* v <= n and v > n for a u32 v and an integer n below 2^31
U32Le(v, n) ==
    v.hi < n \div 65536 \/ (v.hi = n \div 65536 /\ v.lo <= n % 65536)

U32Gt(v, n) == ~U32Le(v, n)

\* `v as usize` for a u32 below 2^31
AsUsize(v) == v.hi * 65536 + v.lo

\* put_u8 / put_u16_le: the n little-endian bytes of the integer v
put_le(v, n) == [i \in 1..n |-> (v \div (IF i = 1 THEN 1 ELSE 256)) % 256]

\* put_u32_le / u32::to_le_bytes
put_u32_le(v) == put_le(v.lo, 2) \o put_le(v.hi, 2)

\* get_u8 / get_u16_le: the value of n bytes at 0-based position pos
get_le(data, pos, n) ==
    IF n = 1 THEN data[pos + 1]
    ELSE data[pos + 1] + 256 * data[pos + 2]

\* get_u32_le
get_u32_le(data, pos) ==
    [hi |-> get_le(data, pos + 2, 2), lo |-> get_le(data, pos, 2)]

Min(a, b) == IF a < b THEN a ELSE b

\* a payload of n bytes whose bytes differ from place to place
PayloadOf(n, b) == [i \in 1..n |-> (b + i) % 256]

\* data[from..] as a Rust slice (0-based start)
SliceFrom(data, from) == SubSeq(data, from + 1, Len(data))

\* data[from..to] as a Rust slice (0-based, to exclusive)
Slice(data, from, to) == SubSeq(data, from + 1, to)

(***************************************************************************)
(* packet/framing.rs                                                       *)
(***************************************************************************)
PACKET_MAGIC == 22291                 \* 0x5713
PACKET_MAGIC_BYTES == <<19, 87>>      \* 13 57
MIN_PACKET_SIZE == 4
MAX_PACKET_SIZE == 65536

\* anyhow errors are kept by the fixed head of their message
Err(m) == [ok |-> FALSE, msg |-> m]

\* PacketFrame::new
PacketFrame_new(payload) == [magic |-> PACKET_MAGIC, payload |-> payload]

\* PacketFrame::opcode: first payload byte, None on an empty payload
opcode(packet) ==
    IF Len(packet.payload) = 0 THEN None ELSE Some(packet.payload[1])

write_varint_narrow(buf, value) ==
    IF U32Le(value, 255) THEN buf \o <<1>> \o put_le(value.lo, 1)
    ELSE buf \o <<2>> \o put_le(value.lo, 2)

\* write_varint(buf, value): the buffer after the call
write_varint(buf, value) ==
    IF U32Le(value, 255) THEN buf \o <<1>> \o put_le(value.lo, 1)
    ELSE IF U32Le(value, 65535) THEN buf \o <<2>> \o put_le(value.lo, 2)
    ELSE buf \o <<4>> \o put_u32_le(value)

read_varint_empty(data, pos) ==
    IF Len(data) - pos <= 0 THEN Err("No data for varint size byte")
    ELSE IF data[pos + 1] = 3
        THEN [ok |-> TRUE, value |-> U32(0), pos |-> pos + 1]
    ELSE Err("Invalid varint size byte")

read_varint_one_width(data, pos) ==
    IF Len(data) - pos <= 0 THEN Err("No data for varint size byte")
    ELSE LET size_byte == data[pos + 1]
             rem == Len(data) - (pos + 1)
         IN  IF size_byte = 1 /\ rem >= 1
                 THEN [ok |-> TRUE, value |-> U32(get_le(data, pos + 1, 1)),
                       pos |-> pos + 2]
             ELSE IF size_byte = 1
                 THEN Err("Not enough data for 1-byte varint")
             ELSE Err("Invalid varint size byte")

\* read_varint(cursor): cursor = data read from 0-based position pos;
\* the result carries the cursor position after the call
read_varint(data, pos) ==
    IF Len(data) - pos <= 0 THEN Err("No data for varint size byte")
    ELSE LET size_byte == data[pos + 1]
             rem == Len(data) - (pos + 1)
         IN  CASE size_byte = 1 ->
                    IF rem <= 0
                    THEN Err("Not enough data for 1-byte varint")
                    ELSE [ok |-> TRUE,
                          value |-> U32(get_le(data, pos + 1, 1)),
                          pos |-> pos + 2]
               [] size_byte = 2 ->
                    IF rem < 2
                    THEN Err("Not enough data for 2-byte varint")
                    ELSE [ok |-> TRUE,
                          value |-> U32(get_le(data, pos + 1, 2)),
                          pos |-> pos + 3]
               [] size_byte = 4 ->
                    IF rem < 4
                    THEN Err("Not enough data for 4-byte varint")
                    ELSE [ok |-> TRUE,
                          value |-> get_u32_le(data, pos + 1),
                          pos |-> pos + 5]
               [] OTHER -> Err("Invalid varint size byte")

\* PacketFrame::to_bytes
to_bytes(packet) ==
    write_varint(put_le(packet.magic, 2), U32(Len(packet.payload)))
        \o packet.payload

from_bytes_unchecked(data) ==
    IF Len(data) < MIN_PACKET_SIZE THEN Err("Packet too short")
    ELSE LET vr == read_varint(data, 2)
         IN  IF ~vr.ok THEN Err(vr.msg)
             ELSE IF U32Gt(vr.value, 2 * MAX_PACKET_SIZE)
                     \/ Len(data) < vr.pos + AsUsize(vr.value)
                 THEN Err("Incomplete packet")
             ELSE [ok |-> TRUE,
                   packet |-> [magic |-> get_le(data, 0, 2),
                               payload |->
                                 Slice(data, vr.pos,
                                       vr.pos + AsUsize(vr.value))],
                   size |-> vr.pos + AsUsize(vr.value)]

\* PacketFrame::from_bytes: Ok((packet, size)) or Err(message)
from_bytes(data) ==
    IF Len(data) < MIN_PACKET_SIZE THEN Err("Packet too short")
    ELSE LET magic == get_le(data, 0, 2)
         IN  IF magic # PACKET_MAGIC THEN Err("Invalid packet magic")
             ELSE LET vr == read_varint(data, 2)
                  IN  IF ~vr.ok THEN Err(vr.msg)
                      ELSE IF U32Gt(vr.value, MAX_PACKET_SIZE)
                          THEN Err("Payload size too large")
                      ELSE LET payload_size == AsUsize(vr.value)
                               offset == vr.pos
                           IN  IF Len(data) < offset + payload_size
                                   THEN Err("Incomplete packet")
                               ELSE [ok |-> TRUE,
                                     packet |->
                                       [magic |-> magic,
                                        payload |->
                                          Slice(data, offset,
                                                offset + payload_size)],
                                     size |-> offset + payload_size]

\* PacketFrame::parse_multiple, the while loop from `offset` on
RECURSIVE parse_loop(_, _, _)
parse_loop(data, offset, packets) ==
    LET Step(r) ==
            IF r.ok THEN parse_loop(data, offset + r.size,
                                    Append(packets, r.packet))
            ELSE [ok |-> TRUE, packets |-> packets, consumed |-> offset]
    IN  IF offset < Len(data) THEN Step(from_bytes(SliceFrom(data, offset)))
        ELSE [ok |-> TRUE, packets |-> packets, consumed |-> offset]

parse_multiple_whole(data) ==
    [parse_loop(data, 0, <<>>) EXCEPT !.consumed = Len(data)]

\* PacketFrame::parse_multiple: Ok((packets, consumed))
parse_multiple(data) == parse_loop(data, 0, <<>>)

\* ro2-login process_buffer: e.to_string().contains("Incomplete packet")
\* is the one error the runtime treats as "wait for more data"
IsIncomplete(r) == ~r.ok /\ r.msg = "Incomplete packet"

\* The wire format of a frame whose encoder chose the length width w:
\* 13 57, w, the length as w little-endian bytes, the payload
FrameWithWidth(w, payload) ==
    PACKET_MAGIC_BYTES \o <<w>>
        \o (IF w = 4 THEN put_u32_le(U32(Len(payload)))
            ELSE put_le(Len(payload), w))
        \o payload

(***************************************************************************)
(* crypto/proudnet.rs                                                      *)
(*                                                                         *)
(* The RSA and AES primitives come from the rsa and aes crates.  They are  *)
(* modelled by keyed bijections with the same shape: RSA-1024 maps a       *)
(* plaintext to a ciphertext of RSA_BYTES bytes that only decrypts when it *)
(* is well formed, AES-128 maps each 16-byte block to a 16-byte block      *)
(* under the installed key.                                                *)
(***************************************************************************)
RSA_BYTES == 128                 \* generate_rsa_keypair(1024)
RSA_MAX_PLAIN == RSA_BYTES - 1   \* longest plaintext one ciphertext holds
AES_BLOCK == 16

Zeros(n) == [i \in 1..n |-> 0]

\* A keypair made by generate_rsa_keypair is known by a byte k; the
\* keypairs that can come out of the generator, and the one the login
\* server made at startup
Keypairs == {0, 85}

STARTUP_KEYPAIR == 0

\* What a client holding the public key of keypair k sends for plaintext m
rsa_encrypt(k, m) ==
    <<Len(m)>> \o [i \in 1..Len(m) |-> (255 - m[i] + k) % 256]
               \o [i \in 1..(RSA_BYTES - 1 - Len(m)) |-> k]

\* private_key.decrypt(OAEP-SHA1) .or_else(PKCS#1 v1.5) .or_else(OAEP-SHA256)
\* with the private key of keypair k
rsa_decrypt(k, ct) ==
    IF Len(ct) # RSA_BYTES THEN Err("Failed to decrypt session key with RSA")
    ELSE LET n == ct[1]
         IN  IF n > RSA_MAX_PLAIN
                \/ \E i \in (n + 2)..RSA_BYTES : ct[i] # k
             THEN Err("Failed to decrypt session key with RSA")
             ELSE [ok |-> TRUE,
                   value |-> [i \in 1..n |-> (255 + k - ct[i + 1]) % 256]]

decrypt_session_key_rsa_keep(rsa, key, encrypted_key) ==
    IF rsa = None
    THEN [ok |-> FALSE, msg |-> "No RSA private key set", aes_key |-> key]
    ELSE
    LET d == rsa_decrypt(rsa[1], encrypted_key)
    IN  IF ~d.ok THEN [ok |-> FALSE, msg |-> d.msg, aes_key |-> key]
        ELSE [ok |-> TRUE, value |-> d.value, aes_key |-> key]

\* ProudNetCrypto::decrypt_session_key_rsa on an engine whose keypair is
\* rsa (None without a private key) and whose AES key is key: the result
\* and the aes_key field after the call
decrypt_session_key_rsa(rsa, key, encrypted_key) ==
    IF rsa = None
    THEN [ok |-> FALSE, msg |-> "No RSA private key set", aes_key |-> key]
    ELSE
    LET d == rsa_decrypt(rsa[1], encrypted_key)
    IN  IF ~d.ok THEN [ok |-> FALSE, msg |-> d.msg, aes_key |-> key]
        ELSE [ok |-> TRUE, value |-> d.value,
              aes_key |-> IF Len(d.value) >= 16
                          THEN Some(Slice(d.value, 0, 16)) ELSE key]

\* cipher.encrypt_block on every 16-byte chunk
aes_encrypt_blocks(key, data) ==
    [i \in 1..Len(data) |-> (data[i] + key[((i - 1) % AES_BLOCK) + 1]) % 256]

\* cipher.decrypt_block on every 16-byte chunk
aes_decrypt_blocks(key, data) ==
    [i \in 1..Len(data) |->
        (data[i] + 256 - key[((i - 1) % AES_BLOCK) + 1]) % 256]

encrypt_aes_ecb_exact(key, data) ==
    IF key = None THEN Err("No AES session key set")
    ELSE LET padding_len == (16 - (Len(data) % 16)) % 16
             padded == data \o [i \in 1..padding_len |-> padding_len]
         IN  [ok |-> TRUE, value |-> aes_encrypt_blocks(key[1], padded)]

\* ProudNetCrypto::encrypt_aes_ecb
encrypt_aes_ecb(key, data) ==
    IF key = None THEN Err("No AES session key set")
    ELSE LET padding_len == 16 - (Len(data) % 16)
             padded == data \o [i \in 1..padding_len |-> padding_len]
         IN  [ok |-> TRUE, value |-> aes_encrypt_blocks(key[1], padded)]

\* ProudNetCrypto::decrypt_aes_ecb
decrypt_aes_ecb(key, data) ==
    IF key = None THEN Err("No AES session key set")
    ELSE IF Len(data) % 16 # 0 THEN Err("Invalid AES data length")
    ELSE LET decrypted == aes_decrypt_blocks(key[1], data)
             len == Len(decrypted)
         IN  IF len > 0 /\ decrypted[len] > 0 /\ decrypted[len] <= 16
             THEN [ok |-> TRUE,
                   value |-> SubSeq(decrypted, 1, len - decrypted[len])]
             ELSE [ok |-> TRUE, value |-> decrypted]

\* ProudNetCrypto::decrypt_packet_0x25
decrypt_packet_0x25(key, payload) ==
    IF Len(payload) = 0 \/ payload[1] # 37 THEN Err("Not a 0x25 packet")
    ELSE IF Len(payload) < 4 THEN Err("0x25 packet too short")
    ELSE decrypt_aes_ecb(key, SliceFrom(payload, 4))

(***************************************************************************)
(* protocol/proudnet.rs                                                    *)
(*                                                                         *)
(* A handler h is the record of the ProudNetHandler fields that change:    *)
(* encryption_ready, session_id, client_version and crypto.aes_key.  The   *)
(* RSA keypair, the settings and the remote address never change.  rnd is  *)
(* the record of the values the call draws from rand and the clock.        *)
(***************************************************************************)
FLASH_POLICY_XML ==
    << 60, 63, 120, 109, 108, 32, 118, 101, 114, 115, 105, 111, 110, 61, 34,
       49, 46, 48, 34, 63, 62, 60, 99, 114, 111, 115, 115, 45, 100, 111, 109,
       97, 105, 110, 45, 112, 111, 108, 105, 99, 121, 62, 60, 97, 108, 108,
       111, 119, 45, 97, 99, 99, 101, 115, 115, 45, 102, 114, 111, 109, 32,
       100, 111, 109, 97, 105, 110, 61, 34, 42, 34, 32, 116, 111, 45, 112,
       111, 114, 116, 115, 61, 34, 42, 34, 32, 47, 62, 60, 47, 99, 114, 111,
       115, 115, 45, 100, 111, 109, 97, 105, 110, 45, 112, 111, 108, 105, 99,
       121, 62, 0 >>

\* ProudNetSettings::default, in the order build_encryption_handshake
\* writes the fields
ProudNetSettings_default ==
    << 0, 16777216, 666894337, 65545, 60, 128, 512, 1, 1, 33554432 >>

\* remote_addr.ip().to_string() of the connection: "127.0.0.1"
REMOTE_IP == <<49, 50, 55, 46, 48, 46, 48, 46, 49>>

\* The modulus of keypair k (an odd value with the top bit set)
RSA_MODULUS(k) ==
    [i \in 1..RSA_BYTES |->
        IF i = 1 THEN 193 ELSE (14 * i + 1 + 2 * k) % 256]

\* public_key.to_pkcs1_der(): SEQUENCE { INTEGER modulus, INTEGER 65537 }
\* (30 81 89 02 81 81 00 ... 02 03 01 00 01 for a 128-byte modulus)
RSA_PUBLIC_DER(k) ==
    <<48, 129, (RSA_BYTES + 9) % 256, 2, 129, (RSA_BYTES + 1) % 256, 0>>
        \o RSA_MODULUS(k) \o <<2, 3, 1, 0, 1>>

\* ProudNetHandler::with_settings and with_shared_crypto: the handler of
\* a new connection whose engine holds keypair k and no AES key
HandlerWith(k) ==
    [encryption_ready |-> FALSE, session_id |-> None,
     client_version |-> None, aes_key |-> None, rsa |-> Some(k)]

HandlerInit == HandlerWith(STARTUP_KEYPAIR)

Reply(h, resp) == [ok |-> TRUE, resp |-> resp, h |-> h]

Fail(h, m) == [ok |-> FALSE, msg |-> m, h |-> h]

\* ProudNetHandler::handle_disconnect_notify
handle_disconnect_notify(h, payload) == Reply(h, None)

handle_policy_request_framed(h) ==
    Reply(h, Some(to_bytes(PacketFrame_new(FLASH_POLICY_XML))))

\* ProudNetHandler::handle_policy_request
handle_policy_request(h) == Reply(h, Some(FLASH_POLICY_XML))

build_encryption_handshake_canonical(h) ==
    LET s == ProudNetSettings_default
        le(x) == put_u32_le(U32(x))
        settings == le(s[1]) \o le(s[2]) \o le(s[3]) \o le(s[4])
                    \o le(s[5]) \o le(s[6]) \o le(s[7]) \o le(s[8])
                    \o le(s[9]) \o le(s[10])
        With(der) ==
            [ok |-> TRUE,
             value |-> to_bytes(PacketFrame_new(
                           <<4>> \o settings
                           \o put_le(Len(der) % 65536, 2) \o der))]
    IN  IF h.rsa = None THEN Err("No RSA public key")
        ELSE With(RSA_PUBLIC_DER(h.rsa[1]))

\* ProudNetHandler::build_encryption_handshake
build_encryption_handshake(h) ==
    LET s == ProudNetSettings_default
        le(x) == put_u32_le(U32(x))
        settings == le(s[1]) \o le(s[2]) \o le(s[3]) \o le(s[4])
                    \o le(s[5]) \o le(s[6]) \o le(s[7]) \o le(s[8])
                    \o le(s[9]) \o le(s[10])
        Framed(payload) ==
            [ok |-> TRUE,
             value |-> <<19, 87>> \o <<2>> \o put_le(Len(payload) % 65536, 2)
                       \o payload]
        With(der) ==
            Framed(<<4>> \o settings \o put_le(Len(der) % 65536, 2) \o der)
    IN  IF h.rsa = None THEN Err("No RSA public key")
        ELSE With(RSA_PUBLIC_DER(h.rsa[1]))

handle_encryption_response_noflag(h, payload) ==
    IF Len(payload) < 5 THEN Fail(h, "0x05 payload too short")
    ELSE IF payload[1] # 5 THEN Fail(h, "Expected opcode 0x05")
    ELSE LET key_len == get_le(payload, 2, 2)
         IN  IF Len(payload) < 4 + key_len
             THEN Fail(h, "0x05 payload truncated")
             ELSE LET d == decrypt_session_key_rsa(
                               h.rsa, h.aes_key, Slice(payload, 4, 4 + key_len))
                  IN  IF d.ok
                      THEN Reply([h EXCEPT !.aes_key = d.aes_key],
                                 Some(to_bytes(PacketFrame_new(<<6>>))))
                      ELSE Fail(h, "Failed to decrypt with RSA")

\* ProudNetHandler::handle_encryption_response
handle_encryption_response(h, payload) ==
    IF Len(payload) < 5 THEN Fail(h, "0x05 payload too short")
    ELSE IF payload[1] # 5 THEN Fail(h, "Expected opcode 0x05")
    ELSE LET key_len == get_le(payload, 2, 2)
         IN  IF Len(payload) < 4 + key_len
             THEN Fail(h, "0x05 payload truncated")
             ELSE LET d == decrypt_session_key_rsa(
                               h.rsa, h.aes_key, Slice(payload, 4, 4 + key_len))
                  IN  IF d.ok
                      THEN Reply([h EXCEPT !.aes_key = d.aes_key,
                                           !.encryption_ready = TRUE],
                                 Some(to_bytes(PacketFrame_new(<<6>>))))
                      ELSE Fail(h, "Failed to decrypt with RSA")

build_connection_success_stale(h, rnd) ==
    LET payload == <<10>> \o put_u32_le(U32(0)) \o rnd.guid
                   \o <<1, 0>> \o <<1>> \o <<1>>
                   \o REMOTE_IP \o <<172, 246>>
    IN  Reply(h, Some(to_bytes(PacketFrame_new(payload))))

\* ProudNetHandler::build_connection_success
build_connection_success(h, rnd) ==
    LET sid == IF h.session_id = None THEN U32(0) ELSE h.session_id[1]
        payload == <<10>> \o put_u32_le(sid) \o rnd.guid
                   \o <<1, 0>> \o <<1>> \o <<1>>
                   \o <<Len(REMOTE_IP) % 256>> \o REMOTE_IP
                   \o <<172, 246>>
    IN  Reply(h, Some(to_bytes(PacketFrame_new(payload))))

handle_version_check_22(h, payload, rnd) ==
    IF Len(payload) < 22 THEN Fail(h, "0x07 payload too short")
    ELSE build_connection_success(
             [h EXCEPT !.client_version = Some(U32(get_le(payload, 1, 2))),
                       !.session_id = Some(rnd.sid)], rnd)

\* ProudNetHandler::handle_version_check
handle_version_check(h, payload, rnd) ==
    IF Len(payload) < 23 THEN Fail(h, "0x07 payload too short")
    ELSE build_connection_success(
             [h EXCEPT !.client_version = Some(U32(get_le(payload, 1, 2))),
                       !.session_id = Some(rnd.sid)], rnd)

\* ProudNetHandler::handle_heartbeat_request
handle_heartbeat_request(h, payload) ==
    LET sequence == IF Len(payload) >= 2
                    THEN <<payload[1], payload[2]>> ELSE <<0, 0>>
    IN  Reply(h, Some(to_bytes(PacketFrame_new(
                          <<29>> \o sequence \o Zeros(14)))))

handle_keep_alive_echo(h) ==
    Reply(h, Some(to_bytes(PacketFrame_new(<<28>>))))

\* ProudNetHandler::handle_keep_alive
handle_keep_alive(h) == Reply(h, None)

\* ProudNetHandler::handle
handle(h, op, payload, rnd) ==
    CASE op = 1  -> handle_disconnect_notify(h, payload)
      [] op = 47 -> handle_policy_request(h)
      [] op = 4  -> Reply(h, None)
      [] op = 5  -> handle_encryption_response(h, payload)
      [] op = 7  -> handle_version_check(h, payload, rnd)
      [] op = 27 -> handle_heartbeat_request(h, payload)
      [] op = 28 -> handle_keep_alive(h)
      [] OTHER   -> Reply(h, None)

\* ProudNetHandler::is_encryption_ready
is_encryption_ready(h) == h.encryption_ready

\* ProudNetHandler::decrypt_packet
decrypt_packet(h, payload) ==
    IF ~h.encryption_ready THEN Err("Encryption not ready")
    ELSE decrypt_packet_0x25(h.aes_key, payload)

\* ProudNetHandler::encrypt_packet
encrypt_packet(h, payload) ==
    IF ~h.encryption_ready THEN Err("Encryption not ready")
    ELSE LET e == encrypt_aes_ecb(h.aes_key, payload)
         IN  IF ~e.ok THEN e
             ELSE [ok |-> TRUE,
                   value |-> to_bytes(PacketFrame_new(
                                 <<37, 1, 1, 32>> \o e.value))]

(***************************************************************************)
(* ro2-login/src/handlers/mod.rs and ro2-login/src/main.rs                 *)
(*                                                                         *)
(* A connection c is the record of buffer, the handler h, the events of    *)
(* the current loop iteration (log) and failed: "no" while the task runs,  *)
(* "error" once `?` returned an Err, "panic" once an index was out of      *)
(* range.  The socket accepts every write.                                 *)
(***************************************************************************)
READ_BUF_SIZE == 4096

\* An event of the loop: "drain" (a frame of `size` bytes with payload
\* `bytes` is removed from the buffer), "write" (`bytes` are written and
\* flushed) or "clear" (the buffer is cleared because of `why`); `at` is
\* the length of the buffer when the event happens
Event(ev, bytes, why, size, at) ==
    [ev |-> ev, bytes |-> bytes, why |-> why, size |-> size, at |-> at]

\* self.stream.write_all(bytes) followed by self.stream.flush()
Write(c, bytes) ==
    [c EXCEPT !.log = Append(@, Event("write", bytes, "", Len(bytes),
                                      Len(c.buffer)))]

\* handlers::handle_req_login: AckLogin 0x30D5, 82 bytes
handle_req_login(data, rnd) ==
    <<213, 48>> \o <<0, 0, 0, 0>> \o <<1, 0, 0, 0>> \o rnd.token \o Zeros(56)

\* handle_packet, game message 0x0000: the reply mirrors the client's
\* fields; decrypted[20] and decrypted[21] are read once len >= 20
InitialHandshakeReply(c, decrypted, rnd) ==
    LET len == Len(decrypted)
        cl_version == IF len >= 4 THEN Slice(decrypted, 2, 4)
                      ELSE <<1, 225>>
        cl_build == IF len >= 6 THEN Slice(decrypted, 4, 6)
                        ELSE <<46, 16>>
        cl_field1 == IF len >= 8 THEN Slice(decrypted, 6, 8)
                         ELSE <<0, 33>>
        cl_field2 == IF len >= 14 THEN Slice(decrypted, 12, 14)
                         ELSE <<0, 1>>
        cl_field3 == IF len >= 20 THEN Slice(decrypted, 18, 22)
                         ELSE <<7, 2, 37, 0>>
        cl_field4 == IF len >= 26 THEN Slice(decrypted, 22, 26)
                         ELSE <<128, 63, 0, 0>>
        cl_status == IF len >= 18 THEN Slice(decrypted, 14, 18)
                         ELSE <<0, 0, 0, 1>>
        response == <<0, 0>> \o cl_version \o cl_build
                    \o cl_field1 \o put_u32_le(rnd.now) \o cl_field2
                    \o cl_status \o cl_field3 \o cl_field4
    IN  IF len >= 20 /\ len < 22 THEN [c EXCEPT !.failed = "panic"]
        ELSE LET e == encrypt_packet(c.h, response)
             IN  IF e.ok THEN Write(c, e.value) ELSE c

\* handle_packet, arm 0x25 | 0x26
HandleEncrypted_strict(c, packet, rnd) ==
    IF ~is_encryption_ready(c.h) THEN [c EXCEPT !.failed = "error"]
    ELSE c

HandleEncrypted(c, packet, rnd) ==
    IF ~is_encryption_ready(c.h) THEN c
    ELSE LET d == decrypt_packet(c.h, packet.payload)
         IN  IF ~d.ok THEN c
             ELSE IF Len(d.value) < 2 THEN c
             ELSE LET game_opcode == get_le(d.value, 0, 2)
                  IN  CASE game_opcode = 0 ->
                             InitialHandshakeReply(c, d.value, rnd)
                        [] game_opcode = 12002 ->
                             LET e == encrypt_packet(
                                          c.h, handle_req_login(d.value, rnd))
                             IN  IF e.ok THEN Write(c, e.value) ELSE c
                        [] OTHER -> c

handle_packet_strict(c, packet, rnd) ==
    LET Offer(c1, hs) ==
            IF hs.ok THEN Write(c1, hs.value)
            ELSE [c1 EXCEPT !.failed = "error"]
        Arm(op, r) ==
            CASE op = 1 ->
                   IF r.ok THEN [c EXCEPT !.h = r.h]
                   ELSE [c EXCEPT !.failed = "error"]
              [] op = 47 ->
                   IF ~r.ok THEN [c EXCEPT !.failed = "error"]
                   ELSE IF r.resp = None THEN [c EXCEPT !.h = r.h]
                   ELSE Offer(Write([c EXCEPT !.h = r.h], r.resp[1]),
                              build_encryption_handshake(r.h))
              [] op = 5 ->
                   IF r.ok /\ r.resp # None
                       THEN Write([c EXCEPT !.h = r.h], r.resp[1])
                   ELSE IF r.ok THEN [c EXCEPT !.h = r.h]
                   ELSE [c EXCEPT !.h = r.h, !.failed = "error"]
              [] op \in {7, 27, 28} ->
                   IF ~r.ok THEN [c EXCEPT !.h = r.h, !.failed = "error"]
                   ELSE IF r.resp = None THEN [c EXCEPT !.h = r.h]
                   ELSE Write([c EXCEPT !.h = r.h], r.resp[1])
              [] op \in {37, 38} -> HandleEncrypted(c, packet, rnd)
              [] OTHER -> c
        Dispatch(op) == Arm(op, handle(c.h, op, packet.payload, rnd))
    IN  Dispatch(IF opcode(packet) = None THEN 0 ELSE opcode(packet)[1])

\* ClientConnection::handle_packet
handle_packet(c, packet, rnd) ==
    LET Offer(c1, hs) ==
            IF hs.ok THEN Write(c1, hs.value)
            ELSE [c1 EXCEPT !.failed = "error"]
        Arm(op, r) ==
            CASE op = 1 ->
                   IF r.ok THEN [c EXCEPT !.h = r.h]
                   ELSE [c EXCEPT !.failed = "error"]
              [] op = 47 ->
                   IF ~r.ok THEN [c EXCEPT !.failed = "error"]
                   ELSE IF r.resp = None THEN [c EXCEPT !.h = r.h]
                   ELSE Offer(Write([c EXCEPT !.h = r.h], r.resp[1]),
                              build_encryption_handshake(r.h))
              [] op = 5 ->
                   IF r.ok /\ r.resp # None
                       THEN Write([c EXCEPT !.h = r.h], r.resp[1])
                   ELSE IF r.ok THEN [c EXCEPT !.h = r.h]
                   ELSE [c EXCEPT !.h = r.h]
              [] op \in {7, 27, 28} ->
                   IF ~r.ok THEN [c EXCEPT !.h = r.h, !.failed = "error"]
                   ELSE IF r.resp = None THEN [c EXCEPT !.h = r.h]
                   ELSE Write([c EXCEPT !.h = r.h], r.resp[1])
              [] op \in {37, 38} -> HandleEncrypted(c, packet, rnd)
              [] OTHER -> c
        Dispatch(op) == Arm(op, handle(c.h, op, packet.payload, rnd))
    IN  Dispatch(IF opcode(packet) = None THEN 0 ELSE opcode(packet)[1])

\* every complete frame is drained first, the frames are handled after
RECURSIVE DrainAll(_, _)
DrainAll(c, frames) ==
    LET r == from_bytes(c.buffer)
    IN  IF Len(c.buffer) < 4 \/ ~r.ok THEN [c |-> c, frames |-> frames]
        ELSE DrainAll([c EXCEPT
                         !.buffer = SliceFrom(@, r.size),
                         !.log = Append(@, Event("drain", r.packet.payload,
                                                 "", r.size, Len(c.buffer)))],
                      Append(frames, r.packet))

RECURSIVE HandleAll(_, _, _)
HandleAll(c, frames, rnd) ==
    IF Len(frames) = 0 \/ c.failed # "no" THEN c
    ELSE HandleAll(handle_packet(c, frames[1], rnd), Tail(frames), rnd)

process_buffer_batch(c, rnd) ==
    LET d == DrainAll(c, <<>>) IN HandleAll(d.c, d.frames, rnd)

\* ClientConnection::process_buffer
RECURSIVE process_buffer(_, _)
process_buffer(c, rnd) ==
    LET Continue(c2) ==
            IF c2.failed # "no" THEN c2 ELSE process_buffer(c2, rnd)
        Parsed(r) ==
            IF r.ok
            THEN Continue(handle_packet(
                     [c EXCEPT !.buffer = SliceFrom(@, r.size),
                               !.log = Append(@, Event("drain",
                                               r.packet.payload, "",
                                               r.size, Len(c.buffer)))],
                     r.packet, rnd))
            ELSE IF IsIncomplete(r) THEN c
            ELSE [c EXCEPT !.log = Append(@, Event("clear", <<>>, r.msg,
                                                   Len(c.buffer),
                                                   Len(c.buffer))),
                           !.buffer = <<>>]
    IN  IF Len(c.buffer) < 4 THEN c
        ELSE IF SubSeq(c.buffer, 1, 2) # <<19, 87>>
            THEN [c EXCEPT !.log = Append(@, Event("clear", <<>>,
                                                   "Invalid packet magic",
                                                   Len(c.buffer),
                                                   Len(c.buffer))),
                           !.buffer = <<>>]
        ELSE Parsed(from_bytes(c.buffer))

(***************************************************************************)
(* packet-analyzer/src/bin/test_server.rs: the test server's connection.   *)
(***************************************************************************)
\* b"<policy-file-request/>", the unframed request of a Flash client
POLICY_FILE_REQUEST ==
    <<60, 112, 111, 108, 105, 99, 121, 45, 102, 105, 108, 101, 45,
      114, 101, 113, 117, 101, 115, 116, 47, 62>>

\* self.buffer.drain(..23)
POLICY_DRAIN == 23

\* test_server ClientConnection::handle_packet
ts_handle_packet(c, packet, rnd) ==
    LET Arm(op, r) ==
            CASE op \in {5, 7, 27} ->
                   IF ~r.ok THEN [c EXCEPT !.h = r.h, !.failed = "error"]
                   ELSE IF r.resp = None THEN [c EXCEPT !.h = r.h]
                   ELSE Write([c EXCEPT !.h = r.h], r.resp[1])
              [] OTHER -> c
        Dispatch(op) == Arm(op, handle(c.h, op, packet.payload, rnd))
    IN  Dispatch(IF opcode(packet) = None THEN 0 ELSE opcode(packet)[1])

\* test_server ClientConnection::process_buffer
RECURSIVE ts_process_buffer(_, _)
ts_process_buffer(c, rnd) ==
    LET Continue(c2) ==
            IF c2.failed # "no" THEN c2 ELSE ts_process_buffer(c2, rnd)
        Offer(c1, hs) ==
            IF hs.ok THEN Write(c1, hs.value)
            ELSE [c1 EXCEPT !.failed = "error"]
        Policy(c0, r) ==
            IF ~r.ok THEN [c0 EXCEPT !.failed = "error"]
            ELSE IF r.resp = None THEN c0
            ELSE Offer(Write(c0, r.resp[1]), build_encryption_handshake(r.h))
        Parsed(r) ==
            IF r.ok
            THEN Continue(ts_handle_packet(
                     [c EXCEPT !.buffer = SliceFrom(@, r.size),
                               !.log = Append(@, Event("drain",
                                               r.packet.payload, "",
                                               r.size, Len(c.buffer)))],
                     r.packet, rnd))
            ELSE IF IsIncomplete(r) THEN c
            ELSE [c EXCEPT !.log = Append(@, Event("clear", <<>>, r.msg,
                                                   Len(c.buffer),
                                                   Len(c.buffer))),
                           !.buffer = <<>>]
    IN  IF /\ Len(c.buffer) >= Len(POLICY_FILE_REQUEST)
           /\ SubSeq(c.buffer, 1, Len(POLICY_FILE_REQUEST))
                = POLICY_FILE_REQUEST
        THEN IF Len(c.buffer) < POLICY_DRAIN
             THEN [c EXCEPT !.failed = "panic"]
             ELSE Continue(Policy(
                      [c EXCEPT !.buffer = SliceFrom(@, POLICY_DRAIN),
                                !.log = Append(@, Event("raw",
                                            SubSeq(c.buffer, 1, POLICY_DRAIN),
                                            "", POLICY_DRAIN,
                                            Len(c.buffer)))],
                      handle(c.h, 47, <<>>, rnd)))
        ELSE IF Len(c.buffer) < 4 THEN c
        ELSE IF SubSeq(c.buffer, 1, 2) # <<19, 87>>
            THEN [c EXCEPT !.log = Append(@, Event("clear", <<>>,
                                                   "Invalid packet magic",
                                                   Len(c.buffer),
                                                   Len(c.buffer))),
                           !.buffer = <<>>]
        ELSE Parsed(from_bytes(c.buffer))

(***************************************************************************)
(* The peer: what a client puts on the wire.                               *)
(***************************************************************************)
CLIENT_KEY == [i \in 1..16 |-> 16 + i]     \* the client's AES session key

\* 05 02 <len:u16 LE> <ciphertext> <5 trailing bytes>
ClientKeyExchange(ct) ==
    <<5, 2>> \o put_le(Len(ct), 2) \o ct \o <<9, 8, 7, 6, 5>>

\* 25 01 01 20 <AES ciphertext of inner under the client's key>
ClientEnvelope(inner) ==
    <<37, 1, 1, 32>> \o encrypt_aes_ecb(Some(CLIENT_KEY), inner).value

KPolicy == <<47>>
K05ok == ClientKeyExchange(rsa_encrypt(STARTUP_KEYPAIR, CLIENT_KEY))
\* the same key exchange with another sub-opcode and nothing behind the key
K05bare ==
    <<5, 1>> \o put_le(RSA_BYTES, 2)
        \o rsa_encrypt(STARTUP_KEYPAIR, CLIENT_KEY)
K05bad == ClientKeyExchange([i \in 1..RSA_BYTES |-> 255])
\* a key exchange whose ciphertext decrypts to 8 bytes
K05short ==
    ClientKeyExchange(rsa_encrypt(STARTUP_KEYPAIR, [i \in 1..8 |-> 16 + i]))
K07ok == <<7, 33, 3>> \o [i \in 1..16 |-> 170] \o <<1, 3, 0, 0>>
K07short == <<7, 33, 3>> \o [i \in 1..16 |-> 170] \o <<1, 3, 0>>
KHeartbeat == <<27, 65, 66>>
KKeepAlive == <<28>>
Env1234 == ClientEnvelope(<<52, 18, 4, 3, 2, 1>>)
Env0000 ==
    ClientEnvelope(<<0, 0, 225, 1, 16, 46, 33, 0, 241, 22, 164, 203, 1, 0,
                     1, 0, 0, 0, 0, 37, 2, 7, 0, 0, 128, 63>>)

\* the envelope of Env0000 sent with outer opcode 0x26
Env26 == <<38>> \o Tail(Env0000)

\* an inner message for an opcode the login server has no arm for; the
\* opcode 0x2222 and the payload 04 03 02 01
Env2222 == ClientEnvelope(<<34, 34, 4, 3, 2, 1>>)

\* ReqLogin (0x2EE2) with a short body
EnvLogin == ClientEnvelope(<<226, 46, 117, 115, 101, 114>>)

\* an inner message of one byte
EnvOneByte == ClientEnvelope(<<7>>)

\* an envelope without ciphertext, and one whose ciphertext is 15 bytes
EnvEmpty == <<37, 1, 1, 32>>

EnvBadLen == <<37, 1, 1, 32>> \o [i \in 1..15 |-> 99]

\* one block whose plaintext ends in C8, which is no PKCS#7 padding
EnvBadPad ==
    <<37, 1, 1, 32>>
        \o aes_encrypt_blocks(CLIENT_KEY, <<34, 34>> \o [i \in 1..14 |-> 200])

\* the 0x0000 message cut to 20 bytes
Env0000cut ==
    ClientEnvelope(<<0, 0, 225, 1, 16, 46, 33, 0, 241, 22, 164, 203, 1, 0,
                     1, 0, 0, 0, 0, 37>>)

\* frames the server has nothing to do for: a disconnect notification,
\* with and without bytes behind the opcode, the 0x04 only the server
\* sends, an opcode nobody knows, and a frame without payload
KDisconnect == <<1>>
KDisconnectLong == <<1, 0, 0, 0, 9>>
K04 == <<4, 1, 2>>
KUnknown == <<153, 1, 2, 3>>
KEmpty == <<>>

QuietMenu ==
    {KPolicy, K05ok, K07ok, KKeepAlive, KDisconnect, KDisconnectLong, K04,
     KUnknown, KEmpty}

EnvelopeMenu ==
    {K05ok, K05short, KHeartbeat, Env2222, EnvLogin, EnvOneByte, EnvEmpty,
     EnvBadLen, EnvBadPad, Env0000, Env0000cut}

HandshakeMenu ==
    {KPolicy, K05ok, K05bare, K05bad, K07ok, K07short, KHeartbeat,
     Env1234, Env0000, Env26}

\* Values drawn from rand::random and SystemTime::now while handling
SessionIds == {U32(0), [hi |-> 57005, lo |-> 48879]}

Rnd == [sid : SessionIds, guid : {[i \in 1..16 |-> 171]},
        now : {U32(1793955600)}, token : {[i \in 1..16 |-> 205]}]

\* Items of a client byte stream: frames of every length width, and
\* byte strings that are not frames
StreamFrames ==
    {FrameWithWidth(w, p) : w \in {1, 2, 4}, p \in {KKeepAlive, KHeartbeat}}

StreamGarbage ==
    { <<255, 255, 1, 0>>,            \* bad magic
      <<19, 87, 3, 0>>,              \* width byte 3
      <<19, 87, 4, 1, 0, 1, 0>> }    \* declared length 65537

RECURSIVE Streams(_, _)
Streams(n, items) ==
    IF n = 0 THEN {<<>>}
    ELSE LET shorter == Streams(n - 1, items)
         IN  shorter \cup {s \o f : s \in shorter, f \in items}

(***************************************************************************)
(* Observation of one loop iteration.                                      *)
(***************************************************************************)
\* the events of one kind, in order
EventsOf(l, ev) == SelectSeq(l, LAMBDA e : e.ev = ev)

IsFrameWithOpcode(bytes, op) ==
    LET r == from_bytes(bytes)
    IN  r.ok /\ Len(r.packet.payload) > 0 /\ r.packet.payload[1] = op

Wrote(l, op) ==
    \E i \in 1..Len(l) : l[i].ev = "write" /\ IsFrameWithOpcode(l[i].bytes, op)

ViolationMessages ==
    {"Invalid packet magic", "Invalid varint size byte",
     "Payload size too large"}

HasViolation(l) ==
    \E i \in 1..Len(l) : l[i].ev = "clear" /\ l[i].why \in ViolationMessages

\* progress through the inputs policy, 0x05, 0x07, 0x25; -1 once the
\* frames handled so far are not a prefix of that sequence
ScenarioStep(sc, payload) ==
    IF sc = 0 /\ payload = KPolicy THEN 1
    ELSE IF sc = 1 /\ payload = K05ok THEN 2
    ELSE IF sc = 2 /\ payload = K07ok THEN 3
    ELSE IF sc = 3 /\ payload \in {Env1234, Env0000} THEN 4
    ELSE -1

RECURSIVE ScenarioAfter(_, _)
ScenarioAfter(sc, drains) ==
    IF Len(drains) = 0 THEN sc
    ELSE ScenarioAfter(ScenarioStep(sc, drains[1].bytes), Tail(drains))

(***************************************************************************)
(* One login connection.                                                   *)
(***************************************************************************)
CodecIdle ==
    /\ cPayload = <<>> /\ cWidth = 0 /\ cData = <<>> /\ cOrigin = "none"
    /\ cPhase = "idle" /\ cResult = None
    /\ vValue = 0 /\ vBuf = <<>> /\ vOut = None /\ multi = None

ToolsIdle == files = None /\ rmi = None

\* nothing of the other specifications is in use
SideIdle ==
    /\ cryptos = <<>> /\ conns = <<>>
    /\ engine = None
    /\ dispatcher = None /\ context = None /\ dLast = None
    /\ ToolsIdle

\* ClientConnection::new
ConnInit ==
    /\ buffer = <<>>
    /\ encryption_ready = HandlerInit.encryption_ready
    /\ session_id = HandlerInit.session_id
    /\ client_version = HandlerInit.client_version
    /\ aes_key = HandlerInit.aes_key
    /\ task = "reading"
    /\ pending = <<>> /\ stream = <<>> /\ nSent = 0
    /\ log = <<>> /\ nHandled = 0
    /\ sent04 = FALSE /\ sent06 = FALSE /\ readyCount = 0 /\ scenario = 0
    /\ violated = FALSE /\ afterViolation = FALSE /\ behind = 0

Init == ConnInit /\ CodecIdle /\ SideIdle

\* The client writes one frame and waits until the server has read it
ClientSend(payload) ==
    /\ task = "reading"
    /\ pending = <<>>
    /\ nSent < MaxFrames
    /\ pending' = to_bytes(PacketFrame_new(payload))
    /\ nSent' = nSent + 1
    /\ UNCHANGED <<buffer, encryption_ready, session_id, client_version,
                   aes_key, task, stream, log, nHandled, sent04, sent06,
                   readyCount, scenario, violated, afterViolation, behind>>
    /\ UNCHANGED <<codecVars, sideVars, toolVars>>

\* ClientConnection::handle, one iteration of the loop with Ok(n), n > 0:
\* the read, buffer.extend_from_slice and process_buffer
Arrived(n) ==
    [buffer |-> buffer \o SubSeq(pending, 1, n),
     h |-> [encryption_ready |-> encryption_ready,
            session_id |-> session_id,
            client_version |-> client_version,
            aes_key |-> aes_key,
            rsa |-> HandlerInit.rsa],
     log |-> <<>>, failed |-> "no"]

\* the connection and the observations after an iteration that read n
\* bytes and left the connection as c
Observe(n, c) ==
      \E drains \in {EventsOf(c.log, "drain")} :
        /\ pending' = SubSeq(pending, n + 1, Len(pending))
        /\ buffer' = c.buffer
        /\ encryption_ready' = c.h.encryption_ready
        /\ session_id' = c.h.session_id
        /\ client_version' = c.h.client_version
        /\ aes_key' = c.h.aes_key
        /\ task' = IF c.failed = "no" THEN "reading" ELSE c.failed
        /\ log' = c.log
        /\ nHandled' = nHandled + Len(drains)
        /\ sent04' = (sent04 \/ Wrote(c.log, 4))
        /\ sent06' = (sent06 \/ Wrote(c.log, 6))
        /\ readyCount' = IF ~encryption_ready /\ c.h.encryption_ready
                         THEN readyCount + 1 ELSE readyCount
        /\ scenario' = ScenarioAfter(scenario, drains)
        /\ violated' = (violated \/ HasViolation(c.log))
        /\ afterViolation' = (afterViolation \/ (violated /\ Len(drains) > 0))
        /\ behind' = IF Len(drains) = 0 THEN behind + n
                     ELSE drains[Len(drains)].at - drains[Len(drains)].size
        /\ UNCHANGED <<stream, nSent>>
        /\ UNCHANGED <<codecVars, sideVars, toolVars>>

ReadStep(n, rnd) ==
    \E c \in {process_buffer(Arrived(n), rnd)} : Observe(n, c)

Read ==
    /\ task = "reading"
    /\ \E n \in 1..Min(Len(pending), READ_BUF_SIZE) :
         \E rnd \in Rnd : ReadStep(n, rnd)

\* ClientConnection::handle, the read returns Ok(0): the client has
\* disconnected and the task ends
ReadEof ==
    /\ task = "reading"
    /\ pending = <<>>
    /\ task' = "closed"
    /\ UNCHANGED <<buffer, encryption_ready, session_id, client_version,
                   aes_key, pending, stream, nSent, log, nHandled, sent04,
                   sent06, readyCount, scenario, violated, afterViolation,
                   behind>>
    /\ UNCHANGED <<codecVars, sideVars, toolVars>>

Next ==
    \/ \E payload \in HandshakeMenu : ClientSend(payload)
    \/ Read
    \/ ReadEof

Spec == Init /\ [][Next]_vars

\* The same connection with a client that sends its key and then
\* envelopes, well formed or not
EnvelopeNext ==
    \/ \E payload \in EnvelopeMenu : ClientSend(payload)
    \/ Read
    \/ ReadEof

EnvelopeSpec == Init /\ [][EnvelopeNext]_vars

\* The same connection with a client that mixes the handshake with frames
\* that ask for nothing
QuietNext ==
    \/ \E payload \in QuietMenu : ClientSend(payload)
    \/ Read
    \/ ReadEof

QuietSpec == Init /\ [][QuietNext]_vars

\* streams of a client that opens with the unframed policy request, with
\* or without the NUL behind it, and goes on with frames
RawStreams(n) ==
    {POLICY_FILE_REQUEST \o z \o s :
        z \in {<<>>, <<0>>}, s \in Streams(n, StreamFrames)}

\* The client has written its whole byte stream before the server reads
FramingInit ==
    /\ ConnInit!1 /\ ConnInit!2 /\ ConnInit!3 /\ ConnInit!4 /\ ConnInit!5
    /\ task = "reading"
    /\ stream \in Streams(MaxStream, StreamFrames \cup StreamGarbage)
                   \cup RawStreams(MaxStream - 1)
    /\ pending = stream
    /\ nSent = 0
    /\ log = <<>> /\ nHandled = 0
    /\ sent04 = FALSE /\ sent06 = FALSE /\ readyCount = 0 /\ scenario = 0
    /\ violated = FALSE /\ afterViolation = FALSE /\ behind = 0
    /\ CodecIdle /\ SideIdle

FramingNext == Read \/ ReadEof

FramingSpec == FramingInit /\ [][FramingNext]_vars

\* test_server ClientConnection::handle, one iteration with Ok(n), n > 0
TsReadStep(n, rnd) ==
    \E c \in {ts_process_buffer(Arrived(n), rnd)} : Observe(n, c)

TsRead ==
    /\ task = "reading"
    /\ \E n \in 1..Min(Len(pending), READ_BUF_SIZE) :
         \E rnd \in Rnd : TsReadStep(n, rnd)

\* A connection of the test server whose client opens with the unframed
\* policy request
PolicyInit ==
    /\ ConnInit!1 /\ ConnInit!2 /\ ConnInit!3 /\ ConnInit!4 /\ ConnInit!5
    /\ task = "reading"
    /\ stream \in RawStreams(MaxStream - 1)
    /\ pending = stream
    /\ nSent = 0
    /\ log = <<>> /\ nHandled = 0
    /\ sent04 = FALSE /\ sent06 = FALSE /\ readyCount = 0 /\ scenario = 0
    /\ violated = FALSE /\ afterViolation = FALSE /\ behind = 0
    /\ CodecIdle /\ SideIdle

PolicyNext == TsRead \/ ReadEof

PolicySpec == PolicyInit /\ [][PolicyNext]_vars

(***************************************************************************)
(* The login server with several connections (ro2-login main and           *)
(* handle_client).  A ProudNetCrypto lives at an address of `cryptos`; a   *)
(* handler names the address of its own engine.                            *)
(***************************************************************************)
\* two connections, and an address for main's engine and for each clone
ConnIds == {1, 2}

Addresses == {0, 1, 2}

SERVER_CRYPTO == 0      \* the address of main's Arc<ProudNetCrypto>

\* ProudNetCrypto::new and generate_rsa_keypair(1024), giving keypair k
ProudNetCrypto_generated(k) == [rsa |-> Some(k), aes_key |-> None]

\* the lowest address that holds no object
FreeAddress(objs) ==
    CHOOSE a \in Addresses :
        objs[a] = None /\ \A b \in Addresses : b < a => objs[b] # None

with_shared_crypto_alias(objs, arc) ==
    [objs |-> objs,
     handler |-> [crypto |-> arc, encryption_ready |-> FALSE,
                  session_id |-> None, client_version |-> None]]

\* ProudNetHandler::with_shared_crypto: `crypto: (*crypto).clone()` makes
\* a new engine with the fields of the one behind the Arc
with_shared_crypto(objs, arc) ==
    [objs |-> [objs EXCEPT ![FreeAddress(objs)] = objs[arc]],
     handler |-> [crypto |-> FreeAddress(objs), encryption_ready |-> FALSE,
                  session_id |-> None, client_version |-> None]]

\* the handler record of a ProudNetHandler whose engine is at its address
HandlerAt(objs, handler) ==
    [encryption_ready |-> handler.encryption_ready,
     session_id |-> handler.session_id,
     client_version |-> handler.client_version,
     aes_key |-> objs[handler.crypto].aes_key,
     rsa |-> objs[handler.crypto].rsa]

NoConn ==
    [state |-> "none", handler |-> None, buffer |-> <<>>, pending |-> <<>>,
     nSent |-> 0, advertised |-> None]

\* main: the keypair is generated and put behind an Arc before the
\* listener accepts
ServerInit ==
    /\ ConnInit /\ CodecIdle
    /\ engine = None /\ dispatcher = None /\ context = None /\ dLast = None
    /\ ToolsIdle
    /\ \E k \in Keypairs :
         cryptos = [a \in Addresses |->
                      IF a = SERVER_CRYPTO THEN ProudNetCrypto_generated(k)
                      ELSE None]
    /\ conns = [i \in ConnIds |-> NoConn]

\* main, Ok((socket, addr)) arm: Arc::clone, tokio::spawn, handle_client,
\* ClientConnection::new
Accept(i) ==
    /\ conns[i].state = "none"
    /\ \E r \in {with_shared_crypto(cryptos, SERVER_CRYPTO)} :
         /\ cryptos' = r.objs
         /\ conns' = [conns EXCEPT ![i] = [NoConn EXCEPT
                                              !.state = "reading",
                                              !.handler = r.handler]]
    /\ UNCHANGED toolVars
    /\ UNCHANGED <<connVars, codecVars, engine, dispatcher, context, dLast>>

\* the session key of the client of connection i
ClientKeyOf(i) == [j \in 1..16 |-> 16 * i + j]

\* the keypair whose public key is the DER string der
KeypairOfDer(der) == CHOOSE k \in Keypairs : RSA_PUBLIC_DER(k) = der

\* what the client of connection i sends: the policy request, its session
\* key under the public key the server advertised, the version check
ClientScript(i, advertised) ==
    <<KPolicy,
      IF advertised = None THEN K05bad
      ELSE ClientKeyExchange(
               rsa_encrypt(KeypairOfDer(advertised[1]), ClientKeyOf(i))),
      K07ok>>
        \o [j \in 1..(MaxConnFrames - 3) |-> KHeartbeat]

ConnSend(i) ==
    /\ conns[i].state = "reading"
    /\ conns[i].pending = <<>>
    /\ conns[i].nSent < MaxConnFrames
    /\ conns' = [conns EXCEPT ![i] = [@ EXCEPT
           !.pending = to_bytes(PacketFrame_new(
                           ClientScript(i, conns[i].advertised)
                               [conns[i].nSent + 1])),
           !.nSent = @ + 1]]
    /\ UNCHANGED toolVars
    /\ UNCHANGED <<connVars, codecVars, cryptos, engine, dispatcher, context,
                   dLast>>

\* the DER public key of the 0x04 frames among the writes of l, if any
AdvertisedIn(l, before) ==
    LET ws == SelectSeq(l, LAMBDA e : e.ev = "write"
                                      /\ IsFrameWithOpcode(e.bytes, 4))
    IN  IF Len(ws) = 0 THEN before
        ELSE Some(SliceFrom(from_bytes(ws[Len(ws)].bytes).packet.payload, 43))

\* connection i and its engine after a loop iteration that read n bytes
\* and left the connection as c
ConnAfter(i, n, c) ==
    /\ conns' = [conns EXCEPT ![i] = [@ EXCEPT
           !.state = IF c.failed = "no" THEN "reading" ELSE c.failed,
           !.handler = [crypto |-> conns[i].handler.crypto,
                        encryption_ready |-> c.h.encryption_ready,
                        session_id |-> c.h.session_id,
                        client_version |-> c.h.client_version],
           !.buffer = c.buffer,
           !.pending = SubSeq(conns[i].pending, n + 1, Len(conns[i].pending)),
           !.advertised = AdvertisedIn(c.log, conns[i].advertised)]]
    /\ cryptos' = [cryptos EXCEPT ![conns[i].handler.crypto] =
                      [rsa |-> c.h.rsa, aes_key |-> c.h.aes_key]]

\* ClientConnection::handle of connection i, one iteration with Ok(n)
ConnRead(i) ==
    /\ conns[i].state = "reading"
    /\ \E n \in {Min(3, Len(conns[i].pending)), Len(conns[i].pending)} :
         /\ n > 0
         /\ \E rnd \in Rnd :
              \E c \in {process_buffer(
                            [buffer |-> conns[i].buffer
                                        \o SubSeq(conns[i].pending, 1, n),
                             h |-> HandlerAt(cryptos, conns[i].handler),
                             log |-> <<>>, failed |-> "no"], rnd)} :
                 ConnAfter(i, n, c)
    /\ UNCHANGED toolVars
    /\ UNCHANGED <<connVars, codecVars, engine, dispatcher, context, dLast>>

\* ClientConnection::handle of connection i, the read returns Ok(0)
ConnEof(i) ==
    /\ conns[i].state = "reading"
    /\ conns[i].pending = <<>>
    /\ conns[i].nSent > 0
    /\ conns' = [conns EXCEPT ![i] = [@ EXCEPT !.state = "closed"]]
    /\ UNCHANGED toolVars
    /\ UNCHANGED <<connVars, codecVars, cryptos, engine, dispatcher, context,
                   dLast>>

ServerNext ==
    \E i \in ConnIds : Accept(i) \/ ConnSend(i) \/ ConnRead(i) \/ ConnEof(i)

ServerSpec == ServerInit /\ [][ServerNext]_vars

(***************************************************************************)
(* The crypto engine applied to inputs (crypto/proudnet.rs and its tests). *)
(* engine is the ProudNetCrypto under test (rsa, aes_key), the call and    *)
(* its input, and what the calls returned.                                 *)
(***************************************************************************)
\* session keys: the client's, and one of high bytes
AesKeys == {CLIENT_KEY, [i \in 1..16 |-> 240 + i - 1]}

\* the lengths of test_aes_block_sizes and every length up to MaxBlocks
\* blocks and one byte
PlainLens == (0..(AES_BLOCK * MaxBlocks + 1)) \cup {100}

\* plaintexts: counting bytes (the last byte of a short one is a valid
\* padding length), and two fillings
Plaintexts ==
    {PayloadOf(n, b) : n \in PlainLens, b \in {0, 36, 250}}

\* bytes a decrypted block can end in
LastBytes == {0, 1, 5, 15, 16, 17, 200, 255}

\* ciphertexts as they come from the wire: whole blocks whose plaintext
\* ends in any byte, and byte strings of every length
RawCiphertexts(key) ==
    {aes_encrypt_blocks(key, PayloadOf(AES_BLOCK * n - 1, 36) \o <<b>>) :
        n \in 1..MaxBlocks, b \in LastBytes}
    \cup {PayloadOf(n, 99) : n \in 0..(AES_BLOCK * MaxBlocks + 1)}

\* what arrives as the encrypted session key: a key under the engine's
\* public key and under another one, longer
\* and shorter plaintexts, and byte strings that are no ciphertext
RsaInputs ==
    {rsa_encrypt(j, m) : j \in Keypairs,
                         m \in AesKeys \cup {PayloadOf(20, 7), PayloadOf(8, 7),
                                              <<>>}}
    \cup {[i \in 1..RSA_BYTES |-> 255], PayloadOf(RSA_BYTES - 1, 3),
          PayloadOf(RSA_BYTES + 1, 3), <<>>}

EngineInit ==
    /\ ConnInit /\ CodecIdle
    /\ cryptos = <<>> /\ conns = <<>>
    /\ dispatcher = None /\ context = None /\ dLast = None
    /\ ToolsIdle
    /\ \/ \E key \in AesKeys, p \in Plaintexts :
            engine = [call |-> "encrypt", rsa |-> None, aes_key |-> Some(key),
                      input |-> p, encrypted |-> None, result |-> None,
                      before |-> None]
       \/ \E key \in AesKeys :
            \E ct \in RawCiphertexts(key) :
              engine = [call |-> "decrypt", rsa |-> None,
                        aes_key |-> Some(key), input |-> ct,
                        encrypted |-> None, result |-> None,
                        before |-> None]
       \/ \E k \in Keypairs, old \in {None, Some(CLIENT_KEY)} :
            \E ct \in RsaInputs :
              engine = [call |-> "rsa", rsa |-> Some(k), aes_key |-> old,
                        input |-> ct, encrypted |-> None, result |-> None,
                        before |-> None]

\* crypto.encrypt_aes_ecb(&plaintext)
EncryptAes ==
    /\ engine.call = "encrypt"
    /\ engine' = [engine EXCEPT
                     !.call = "decrypt_encrypted",
                     !.encrypted = Some(encrypt_aes_ecb(engine.aes_key,
                                                        engine.input))]
    /\ UNCHANGED toolVars
    /\ UNCHANGED <<connVars, codecVars, cryptos, conns, dispatcher, context,
                   dLast>>

\* crypto.decrypt_aes_ecb(&encrypted) on what encrypt_aes_ecb returned
DecryptEncrypted ==
    /\ engine.call = "decrypt_encrypted"
    /\ engine.encrypted[1].ok
    /\ engine' = [engine EXCEPT
                     !.call = "roundtrip_done",
                     !.result = Some(decrypt_aes_ecb(
                                     engine.aes_key,
                                     engine.encrypted[1].value))]
    /\ UNCHANGED toolVars
    /\ UNCHANGED <<connVars, codecVars, cryptos, conns, dispatcher, context,
                   dLast>>

\* crypto.decrypt_aes_ecb(&data) on bytes from the wire
DecryptAes ==
    /\ engine.call = "decrypt"
    /\ engine' = [engine EXCEPT
                     !.call = "decrypt_done",
                     !.result = Some(decrypt_aes_ecb(engine.aes_key,
                                                     engine.input))]
    /\ UNCHANGED toolVars
    /\ UNCHANGED <<connVars, codecVars, cryptos, conns, dispatcher, context,
                   dLast>>

\* server.decrypt_session_key_rsa(&encrypted_key)
DecryptSessionKey ==
    /\ engine.call = "rsa"
    /\ \E r \in {decrypt_session_key_rsa(engine.rsa, engine.aes_key,
                                          engine.input)} :
         engine' = [engine EXCEPT
                      !.call = "rsa_done",
                      !.before = Some(engine.aes_key),
                      !.aes_key = r.aes_key,
                      !.result = Some(IF r.ok
                                      THEN [ok |-> TRUE, value |-> r.value]
                                      ELSE [ok |-> FALSE, msg |-> r.msg])]
    /\ UNCHANGED toolVars
    /\ UNCHANGED <<connVars, codecVars, cryptos, conns, dispatcher, context,
                   dLast>>

EngineNext ==
    EncryptAes \/ DecryptEncrypted \/ DecryptAes \/ DecryptSessionKey

EngineSpec == EngineInit /\ [][EngineNext]_vars

(***************************************************************************)
(* The message dispatcher (protocol/dispatcher.rs, protocol/handler.rs)    *)
(* and the handlers of the repository (ro2-world/src/handlers/system.rs,   *)
(* the TestHandler of the dispatcher's tests).  dispatcher is a            *)
(* MessageDispatcher (registry, stats), context the GameContext its caller *)
(* passes to every dispatch, dLast the last call and what it returned.     *)
(***************************************************************************)
SYSTEM_MESSAGE == 4097       \* 0x1001
OTHER_OPCODE == 4098         \* 0x1002
UNKNOWN_OPCODE == 39321      \* 0x9999
TEST_SESSION == 123

\* DispatcherStats::default()
DispatcherStats_default ==
    [messages_processed |-> 0, messages_success |-> 0,
     messages_failed |-> 0, messages_unhandled |-> 0]

\* MessageDispatcher::new: an empty registry (opcode -> handler), zero stats
MessageDispatcher_new ==
    [registry |-> <<>>, stats |-> DispatcherStats_default]

\* GameContext::new(session_id, remote_addr); the timestamps of
\* connection_info are written by update_activity only
GameContext_new(session) ==
    [session_id |-> session, game_state |-> 0, character_id |-> None,
     account_id |-> None]

\* GameContext::is_game_state_active
is_game_state_active(ctx) == ctx.game_state = 1 \/ ctx.game_state = 2

\* std::str::from_utf8 on s[i..]: the well-formed byte sequences of UTF-8
RECURSIVE Utf8From(_, _)
Utf8From(s, i) ==
    IF i > Len(s) THEN TRUE
    ELSE LET b == s[i]
             Cont(j, lo, hi) ==
                 i + j <= Len(s) /\ s[i + j] >= lo /\ s[i + j] <= hi
         IN  IF b < 128 THEN Utf8From(s, i + 1)
             ELSE IF b >= 194 /\ b <= 223
             THEN Cont(1, 128, 191) /\ Utf8From(s, i + 2)
             ELSE IF b = 224
             THEN Cont(1, 160, 191) /\ Cont(2, 128, 191)
                  /\ Utf8From(s, i + 3)
             ELSE IF (b >= 225 /\ b <= 236) \/ b = 238 \/ b = 239
             THEN Cont(1, 128, 191) /\ Cont(2, 128, 191)
                  /\ Utf8From(s, i + 3)
             ELSE IF b = 237
             THEN Cont(1, 128, 159) /\ Cont(2, 128, 191)
                  /\ Utf8From(s, i + 3)
             ELSE IF b = 240
             THEN Cont(1, 144, 191) /\ Cont(2, 128, 191)
                  /\ Cont(3, 128, 191) /\ Utf8From(s, i + 4)
             ELSE IF b >= 241 /\ b <= 243
             THEN Cont(1, 128, 191) /\ Cont(2, 128, 191)
                  /\ Cont(3, 128, 191) /\ Utf8From(s, i + 4)
             ELSE IF b = 244
             THEN Cont(1, 128, 143) /\ Cont(2, 128, 191)
                  /\ Cont(3, 128, 191) /\ Utf8From(s, i + 4)
             ELSE FALSE

\* parse_message_text: a u16 LE length, then that many bytes of UTF-8
parse_message_text(data) ==
    IF Len(data) < 2 THEN Err("Packet too short for message length")
    ELSE LET length == data[1] + 256 * data[2]
         IN  IF Len(data) < 2 + length
             THEN Err("Packet too short for message text")
             ELSE IF ~Utf8From(Slice(data, 2, 2 + length), 1)
             THEN Err("Invalid UTF-8 in message")
             ELSE [ok |-> TRUE, value |-> Slice(data, 2, 2 + length)]

\* <SystemMessageHandler as GameMessageHandler>::handle
SystemMessageHandler_handle(packet_id, data, ctx) ==
    IF packet_id # SYSTEM_MESSAGE
    THEN [result |-> Err("SystemMessageHandler received wrong opcode"),
          context |-> ctx]
    ELSE IF ~is_game_state_active(ctx)
    THEN [result |-> [ok |-> TRUE, value |-> None], context |-> ctx]
    ELSE IF ~parse_message_text(data).ok
    THEN [result |-> Err("Failed to parse system message"), context |-> ctx]
    ELSE [result |-> [ok |-> TRUE, value |-> None], context |-> ctx]

\* <TestHandler as GameMessageHandler>::handle of the dispatcher's tests
TestHandler_handle(packet_id, data, ctx) ==
    [result |-> [ok |-> TRUE, value |-> Some(<<1, 2, 3, 4>>)],
     context |-> ctx]

\* handler.handle(packet_id, data, context) through the trait object
GameMessageHandler_handle(handler, packet_id, data, ctx) ==
    IF handler.name = "SystemMessageHandler"
    THEN SystemMessageHandler_handle(packet_id, data, ctx)
    ELSE TestHandler_handle(packet_id, data, ctx)

\* the handlers that exist: SystemMessageHandler (opcode() is 0x1001) and
\* TestHandler { opcode, name }
Handlers ==
    {[name |-> "SystemMessageHandler", opcode |-> SYSTEM_MESSAGE]}
    \cup {[name |-> "TestHandler", opcode |-> o] :
             o \in {SYSTEM_MESSAGE, OTHER_OPCODE}}

register_first(registry, handler) ==
    [o \in (DOMAIN registry) \cup {handler.opcode} |->
        IF o \in DOMAIN registry THEN registry[o] ELSE handler]

\* HandlerRegistry::register: HashMap::insert by handler.opcode()
register(registry, handler) ==
    [o \in (DOMAIN registry) \cup {handler.opcode} |->
        IF o = handler.opcode THEN handler ELSE registry[o]]

\* MessageDispatcher::register_handler
register_handler(d, handler) ==
    [d EXCEPT !.registry = register(d.registry, handler)]

\* HandlerRegistry::has_handler
has_handler(d, op) == op \in DOMAIN d.registry

dispatch_to_uncounted(d, handler, packet_id, data, ctx) ==
    LET r == GameMessageHandler_handle(handler, packet_id, data,
                                       ctx)
    IN  IF r.result.ok
        THEN [dispatcher |->
                [d EXCEPT !.stats.messages_success = @ + 1],
              result |-> r.result, context |-> r.context]
        ELSE [dispatcher |-> d, result |-> r.result, context |-> r.context]

\* MessageDispatcher::dispatch, the match on handler.handle(..).await
dispatch_to(d, handler, packet_id, data, ctx) ==
    LET r == GameMessageHandler_handle(handler, packet_id, data,
                                       ctx)
    IN  IF r.result.ok
        THEN [dispatcher |->
                [d EXCEPT !.stats.messages_success = @ + 1],
              result |-> r.result, context |-> r.context]
        ELSE [dispatcher |->
                [d EXCEPT !.stats.messages_failed = @ + 1],
              result |-> r.result, context |-> r.context]

dispatch_strict(d, packet_id, data, ctx) ==
    LET counted == [d EXCEPT !.stats.messages_processed = @ + 1]
    IN  IF ~has_handler(d, packet_id)
        THEN [dispatcher |->
                [counted EXCEPT !.stats.messages_failed = @ + 1],
              result |-> Err("No handler registered"), context |-> ctx]
        ELSE dispatch_to(counted, d.registry[packet_id], packet_id, data,
                         ctx)

\* MessageDispatcher::dispatch: the dispatcher after the call, what the call
\* returned and the context after the call
dispatch(d, packet_id, data, ctx) ==
    LET counted == [d EXCEPT !.stats.messages_processed = @ + 1]
    IN  IF ~has_handler(d, packet_id)
        THEN [dispatcher |->
                [counted EXCEPT !.stats.messages_unhandled = @ + 1],
              result |-> [ok |-> TRUE, value |-> None], context |-> ctx]
        ELSE dispatch_to(counted, d.registry[packet_id], packet_id, data,
                         ctx)

reset_stats_processed(d) ==
    [d EXCEPT !.stats.messages_processed = 0]

\* MessageDispatcher::reset_stats
reset_stats(d) == [d EXCEPT !.stats = DispatcherStats_default]

\* the opcodes and payloads the caller dispatches: the payload of the
\* tests, "Hi" and an accented letter with their length, a length with too
\* few bytes, a byte that is not UTF-8, and nothing
DispatchOpcodes == {SYSTEM_MESSAGE, OTHER_OPCODE, UNKNOWN_OPCODE}

DispatchData ==
    {<<1, 2, 3>>, <<2, 0, 72, 105>>, <<2, 0, 195, 169>>, <<5, 0, 72>>,
     <<1, 0, 255>>, <<>>}

\* what dLast holds after a call
Called(op, packet_id, data, result) ==
    Some([op |-> op, packet_id |-> packet_id, data |-> data,
          result |-> result, stats |-> dispatcher.stats,
          registry |-> dispatcher.registry, context |-> context])

\* MessageDispatcher::new() and GameContext::new(123, ..)
DispatchInit ==
    /\ ConnInit /\ CodecIdle
    /\ cryptos = <<>> /\ conns = <<>> /\ engine = None
    /\ dispatcher = MessageDispatcher_new
    /\ context = GameContext_new(TEST_SESSION)
    /\ dLast = None
    /\ ToolsIdle

\* dispatcher.register_handler(handler)
RegisterHandler ==
    /\ \E handler \in Handlers :
         /\ dispatcher' = register_handler(dispatcher, handler)
         /\ dLast' = Called("register_handler", handler.opcode, <<>>,
                            Some(handler))
    /\ UNCHANGED toolVars
    /\ UNCHANGED <<connVars, codecVars, cryptos, conns, engine, context>>

\* context.game_state = g, by the owner of the context
SetGameState ==
    /\ \E g \in 0..2 : context' = [context EXCEPT !.game_state = g]
    /\ dLast' = Called("game_state", 0, <<>>, None)
    /\ UNCHANGED toolVars
    /\ UNCHANGED <<connVars, codecVars, cryptos, conns, engine, dispatcher>>

\* dispatcher.dispatch(packet_id, &data, &mut context).await
Dispatch ==
    /\ dispatcher.stats.messages_processed < MaxDispatch
    /\ \E packet_id \in DispatchOpcodes, data \in DispatchData :
         \E r \in {dispatch(dispatcher, packet_id, data, context)} :
           /\ dispatcher' = r.dispatcher
           /\ context' = r.context
           /\ dLast' = Called("dispatch", packet_id, data, Some(r.result))
    /\ UNCHANGED toolVars
    /\ UNCHANGED <<connVars, codecVars, cryptos, conns, engine>>

\* dispatcher.reset_stats()
ResetStats ==
    /\ dispatcher' = reset_stats(dispatcher)
    /\ dLast' = Called("reset_stats", 0, <<>>, None)
    /\ UNCHANGED toolVars
    /\ UNCHANGED <<connVars, codecVars, cryptos, conns, engine, context>>

DispatchNext == RegisterHandler \/ SetGameState \/ Dispatch \/ ResetStats

DispatchSpec == DispatchInit /\ [][DispatchNext]_vars

(***************************************************************************)
(* The client patcher (ro2-patcher/src/main.rs).  An executable is the     *)
(* record of its size and of the 16 bytes it holds at the offset of each   *)
(* patch (<<>> where the file ends before them); no command reads or       *)
(* writes any other byte.  files holds the executable at the path given to *)
(* the commands, the file at the backup path (None: no such file), the     *)
(* executable the run started with and the last command with its result.   *)
(***************************************************************************)
\* PATCHES
PATCHES ==
    << [name |-> "bypass_game_protection_check",
        offset |-> 6616992,
        original |-> <<85, 139, 236, 106, 255, 104, 184, 45, 45, 1, 100,
                       161, 0, 0, 0, 0>>,
        patched |-> <<176, 0, 195, 144, 144, 144, 144, 144, 144, 144, 144,
                      144, 144, 144, 144, 144>>],
       [name |-> "bypass_protection_system_check",
        offset |-> 6603504,
        original |-> <<85, 139, 236, 106, 255, 104, 88, 37, 45, 1, 100,
                       161, 0, 0, 0, 0>>,
        patched |-> <<176, 1, 195, 144, 144, 144, 144, 144, 144, 144, 144,
                      144, 144, 144, 144, 144>>] >>

\* &data[patch.offset..end], for end <= data.len()
RegionOf(data, i) == data.at[i]

\* is_patch_applied
is_patch_applied(data, i) ==
    LET end == PATCHES[i].offset + Len(PATCHES[i].patched)
    IN  IF end > data.size THEN FALSE
        ELSE RegionOf(data, i) = PATCHES[i].patched

\* apply_patch: Ok(true) with the patched data, Ok(false), or an error
apply_patch(data, i) ==
    LET end == PATCHES[i].offset + Len(PATCHES[i].original)
    IN  IF end > data.size
        THEN [ok |-> FALSE, msg |-> "Offset out of bounds", data |-> data]
        ELSE IF RegionOf(data, i) = PATCHES[i].patched
        THEN [ok |-> TRUE, value |-> FALSE, data |-> data]
        ELSE IF RegionOf(data, i) # PATCHES[i].original
        THEN [ok |-> FALSE, msg |-> "Original bytes don't match",
              data |-> data]
        ELSE [ok |-> TRUE, value |-> TRUE,
              data |-> [data EXCEPT !.at[i] = PATCHES[i].patched]]

\* patch_client, the loop over PATCHES from patch i on: the data and the
\* number of patches applied
RECURSIVE ApplyFrom(_, _, _)
ApplyFrom(data, i, applied) ==
    IF i > Len(PATCHES) THEN [data |-> data, applied |-> applied]
    ELSE LET r == apply_patch(data, i)
         IN  ApplyFrom(r.data, i + 1,
                       IF r.ok /\ r.value THEN applied + 1 ELSE applied)

\* patch_client: the file system after the command, with its result
patch_client(f, create_backup) ==
    IF f.exe = None
    THEN [f EXCEPT !.last = [cmd |-> "patch", ok |-> FALSE, applied |-> 0]]
    ELSE LET backed == IF create_backup
                       THEN [f EXCEPT !.backup = f.exe] ELSE f
             r == ApplyFrom(f.exe[1], 1, 0)
         IN  IF r.applied = 0
             THEN [backed EXCEPT
                     !.last = [cmd |-> "patch", ok |-> TRUE, applied |-> 0]]
             ELSE [backed EXCEPT
                     !.exe = Some(r.data),
                     !.last = [cmd |-> "patch", ok |-> TRUE,
                               applied |-> r.applied]]

\* restore_backup
restore_backup(f) ==
    IF f.backup = None
    THEN [f EXCEPT !.last = [cmd |-> "restore", ok |-> FALSE, applied |-> 0]]
    ELSE [f EXCEPT !.exe = f.backup,
                   !.last = [cmd |-> "restore", ok |-> TRUE, applied |-> 0]]

\* verify_patches: the number of patches found applied
verify_patches(f) ==
    IF f.exe = None
    THEN [f EXCEPT !.last = [cmd |-> "verify", ok |-> FALSE, applied |-> 0]]
    ELSE [f EXCEPT !.last =
            [cmd |-> "verify", ok |-> TRUE,
             applied |-> Cardinality({i \in 1..Len(PATCHES) :
                                        is_patch_applied(f.exe[1], i)})]]

\* executables: one that ends right behind the last patched byte, one that
\* is a byte shorter, one that ends before both patches; at each offset
\* the original bytes, the patched bytes or the bytes of another build
ExeSizes == {6617008, 6617007, 6603504}

Executables ==
    {[size |-> n, at |-> <<a, b>>] :
        n \in ExeSizes,
        a \in {PATCHES[1].original, PATCHES[1].patched, Zeros(16)},
        b \in {PATCHES[2].original, PATCHES[2].patched, Zeros(16)}}

\* the executable the user points the patcher at, with no backup yet
PatcherInit ==
    /\ ConnInit /\ CodecIdle
    /\ cryptos = <<>> /\ conns = <<>> /\ engine = None
    /\ dispatcher = None /\ context = None /\ dLast = None
    /\ rmi = None
    /\ \E e \in Executables :
         files = [exe |-> Some(e), backup |-> None, original |-> e,
                  last |-> None, no_backup |-> FALSE]

\* ro2-patcher patch FILE [--no-backup]
PatchClient ==
    /\ \E create_backup \in BOOLEAN :
         files' = [patch_client(files, create_backup) EXCEPT
                     !.no_backup = @ \/ ~create_backup]
    /\ UNCHANGED <<connVars, codecVars, sideVars, rmi>>

\* ro2-patcher restore FILE
RestoreBackup ==
    /\ files' = restore_backup(files)
    /\ UNCHANGED <<connVars, codecVars, sideVars, rmi>>

\* ro2-patcher verify FILE
VerifyPatches ==
    /\ files' = verify_patches(files)
    /\ UNCHANGED <<connVars, codecVars, sideVars, rmi>>

PatcherNext == PatchClient \/ RestoreBackup \/ VerifyPatches

PatcherSpec == PatcherInit /\ [][PatcherNext]_vars

(***************************************************************************)
(* ro2-common/src/packet/parser.rs: RmiMessage.                            *)
(*                                                                         *)
(* The result of parse is Ok(message), Err(message text) or a panic of     *)
(* the calling thread; overflow_checks tells whether the build checks      *)
(* integer overflow (the dev profile) or wraps (the release profile).      *)
(***************************************************************************)
HEADER_SIZE == 16

RmiOk(m) == [outcome |-> "ok", value |-> m]

RmiErr(m) == [outcome |-> "err", msg |-> m]

RmiPanic(m) == [outcome |-> "panic", msg |-> m]

\* HEADER_SIZE as u32 + length: the sum modulo 2^32 and whether it
\* overflowed
HeaderPlus(length) ==
    LET lo == length.lo + HEADER_SIZE
        hi == length.hi + lo \div 65536
    IN  [value |-> [hi |-> hi % 65536, lo |-> lo % 65536],
         overflow |-> hi >= 65536]

\* n < v as usize, for a length n of a slice and a u32 v
UsizeLt(n, v) == v.hi > 0 \/ n < v.lo

\* RmiMessage::parse
RmiMessage_parse(data, overflow_checks) ==
    LET Extract(length) ==
            \* buf holds data[16..]; Bytes::slice asserts end <= len
            IF UsizeLt(Len(data) - HEADER_SIZE, length)
            THEN RmiPanic("range end out of bounds")
            ELSE RmiOk([magic |-> get_u32_le(data, 0),
                        length |-> length,
                        message_id |-> get_le(data, 8, 2),
                        flags |-> get_le(data, 10, 2),
                        sequence |-> get_u32_le(data, 12),
                        payload |-> Slice(data, HEADER_SIZE,
                                          HEADER_SIZE + length.lo)])
        Validate(length, expected_total) ==
            IF expected_total.overflow /\ overflow_checks
            THEN RmiPanic("attempt to add with overflow")
            ELSE IF UsizeLt(Len(data), expected_total.value)
            THEN RmiErr("Incomplete packet")
            ELSE Extract(length)
        Header(length) == Validate(length, HeaderPlus(length))
    IN  IF Len(data) < HEADER_SIZE THEN RmiErr("Packet too short")
        ELSE Header(get_u32_le(data, 4))

\* RmiMessage::to_bytes
RmiMessage_to_bytes(m) ==
    put_u32_le(m.magic) \o put_u32_le(m.length) \o put_le(m.message_id, 2)
        \o put_le(m.flags, 2) \o put_u32_le(m.sequence) \o m.payload

\* length fields: small ones, one above what any input holds, and the
\* largest ones, for which 16 + length is 2^32 - 1, 2^32 and 2^32 + 15
RmiLengths ==
    {U32(n) : n \in 0..(MaxBody + 1)}
        \cup {U32(65536),
              [hi |-> 65535, lo |-> 65519],
              [hi |-> 65535, lo |-> 65520],
              [hi |-> 65535, lo |-> 65535]}

\* 'PROU', the length field, message 0x0124, no flags, sequence 1 and a
\* body of MaxBody bytes
RmiPacket(length) ==
    <<85, 79, 82, 80>> \o put_u32_le(length) \o <<36, 1>> \o <<0, 0>>
        \o put_u32_le(U32(1)) \o [i \in 1..MaxBody |-> 160 + i]

\* what a caller hands to parse: every beginning of such a packet
RmiInputs ==
    {SubSeq(RmiPacket(length), 1, n) :
        length \in RmiLengths, n \in 0..(HEADER_SIZE + MaxBody)}

RmiInit ==
    /\ ConnInit /\ CodecIdle
    /\ cryptos = <<>> /\ conns = <<>> /\ engine = None
    /\ dispatcher = None /\ context = None /\ dLast = None
    /\ files = None
    /\ \E data \in RmiInputs, overflow_checks \in BOOLEAN :
         rmi = [data |-> data, overflow_checks |-> overflow_checks,
                result |-> None, bytes |-> None]

\* RmiMessage::parse(&data)
RmiParse ==
    /\ rmi.result = None
    /\ rmi' = [rmi EXCEPT
                 !.result = Some(RmiMessage_parse(rmi.data,
                                                  rmi.overflow_checks))]
    /\ UNCHANGED <<connVars, codecVars, sideVars, files>>

\* parsed.to_bytes()
RmiToBytes ==
    /\ rmi.result # None /\ rmi.result[1].outcome = "ok"
    /\ rmi.bytes = None
    /\ rmi' = [rmi EXCEPT
                 !.bytes = Some(RmiMessage_to_bytes(rmi.result[1].value))]
    /\ UNCHANGED <<connVars, codecVars, sideVars, files>>

RmiNext == RmiParse \/ RmiToBytes

RmiSpec == RmiInit /\ [][RmiNext]_vars

(***************************************************************************)
(* The frame codec applied to inputs.                                      *)
(***************************************************************************)
SmallPayloads == {PayloadOf(n, b) : n \in 0..MaxLen, b \in {36, 170}}

\* payload lengths around the limits of the three widths and of
\* MAX_PACKET_SIZE
LargePayloads ==
    {PayloadOf(n, 36) : n \in {255, 256, 65535, MAX_PACKET_SIZE,
                               MAX_PACKET_SIZE + 1}}

Payloads == SmallPayloads \cup LargePayloads

\* the values of test_varint_roundtrip, and the limits of each width
VarintValues ==
    {U32(n) : n \in (0..MaxLen) \cup {127, 255, 256, 65535, 65536, 65537}}
        \cup {[hi |-> 65535, lo |-> 65535], [hi |-> 32768, lo |-> 0],
              [hi |-> 255, lo |-> 65535], [hi |-> 256, lo |-> 0]}

\* headers that are not the header to_bytes writes
RawMagics == {<<19, 87>>, <<255, 255>>, <<87, 19>>, <<19, 0>>}

RawWidths == {0, 1, 2, 3, 4, 5, 255}

RawLengths(payload) ==
    {<<Len(payload)>>, put_le(Len(payload), 2),
     put_u32_le(U32(Len(payload))), <<255, 255>>,
     put_u32_le(U32(MAX_PACKET_SIZE)), put_u32_le(U32(MAX_PACKET_SIZE + 1)),
     put_u32_le([hi |-> 65535, lo |-> 65535])}

\* the prefix lengths tried on a byte string: all of them up to MaxCut,
\* and the longest one
PrefixLens(data) ==
    IF Len(data) = 0 THEN {}
    ELSE (0..Min(Len(data) - 1, MaxCut)) \cup {Len(data) - 1}

\* frames of a batch: a length width and a payload each
BatchFrames ==
    [w : {1, 2, 4}, payload : {<<>>, <<170, 187, 204>>, <<221, 238>>}]

RECURSIVE Batches(_)
Batches(n) ==
    IF n = 0 THEN {<<>>}
    ELSE Batches(n - 1)
           \cup {Append(b, f) : b \in {x \in Batches(n - 1) : Len(x) = n - 1},
                                f \in BatchFrames}

RECURSIVE BatchBytes(_)
BatchBytes(frames) ==
    IF Len(frames) = 0 THEN <<>>
    ELSE FrameWithWidth(frames[1].w, frames[1].payload)
           \o BatchBytes(Tail(frames))

\* what follows the last complete frame: nothing, the beginning of a
\* frame, or bytes that are not a frame (with a frame behind them)
BatchTails ==
    {<<>>, <<19>>, <<19, 87>>, <<19, 87, 1>>, <<19, 87, 1, 3, 170>>,
     <<19, 87, 2, 1>>, <<19, 87, 4, 1, 0, 0>>, <<19, 87, 3, 0>>,
     <<255, 255, 1, 0, 19, 87, 1, 0>>}

CodecInit ==
    /\ ConnInit /\ SideIdle
    /\ cWidth = 0 /\ cData = <<>> /\ cOrigin = "none" /\ cResult = None
    /\ vBuf = <<>> /\ vOut = None
    /\ \/ /\ cPhase = "input" /\ cPayload \in Payloads /\ vValue = U32(0)
          /\ multi = None
       \/ /\ cPhase = "vinput" /\ cPayload = <<>> /\ vValue \in VarintValues
          /\ multi = None
       \/ /\ cPhase = "minput" /\ cPayload = <<>> /\ vValue = U32(0)
          /\ multi \in [frames : Batches(MaxBatch), tail : BatchTails,
                         out : {None}]

\* PacketFrame::new(payload).to_bytes()
ToBytes ==
    /\ cPhase = "input"
    /\ cData' = to_bytes(PacketFrame_new(cPayload))
    /\ cOrigin' = "to_bytes"
    /\ cPhase' = "bytes"
    /\ UNCHANGED <<cPayload, cWidth, cResult, vValue, vBuf, vOut>>
    /\ UNCHANGED <<connVars, multi, sideVars, toolVars>>

\* A peer encodes the payload with the length width w
EncodeWidth(w) ==
    /\ cPhase = "input"
    /\ w = 4 \/ Len(cPayload) < (IF w = 1 THEN 256 ELSE 65536)
    /\ cData' = FrameWithWidth(w, cPayload)
    /\ cWidth' = w
    /\ cOrigin' = "width"
    /\ cPhase' = "bytes"
    /\ UNCHANGED <<cPayload, cResult, vValue, vBuf, vOut>>
    /\ UNCHANGED <<connVars, multi, sideVars, toolVars>>

\* Only the first k bytes of an encoded frame have arrived
Truncate(k) ==
    /\ cPhase = "bytes"
    /\ cOrigin \in {"to_bytes", "width"}
    /\ Len(cPayload) <= MAX_PACKET_SIZE
    /\ cData' = SubSeq(cData, 1, k)
    /\ cOrigin' = "prefix"
    /\ UNCHANGED <<cPayload, cWidth, cPhase, cResult, vValue, vBuf, vOut>>
    /\ UNCHANGED <<connVars, multi, sideVars, toolVars>>

\* A peer sends a header of its own making before the payload
MakeRaw(magic, wb, lenbytes) ==
    /\ cPhase = "input"
    /\ Len(cPayload) <= MaxLen
    /\ cData' = magic \o <<wb>> \o lenbytes \o cPayload
    /\ cOrigin' = "raw"
    /\ cPhase' = "bytes"
    /\ UNCHANGED <<cPayload, cWidth, cResult, vValue, vBuf, vOut>>
    /\ UNCHANGED <<connVars, multi, sideVars, toolVars>>

\* PacketFrame::from_bytes(&cData)
Decode ==
    /\ cPhase = "bytes"
    /\ cResult' = from_bytes(cData)
    /\ cPhase' = "decoded"
    /\ UNCHANGED <<cPayload, cWidth, cData, cOrigin, vValue, vBuf, vOut>>
    /\ UNCHANGED <<connVars, multi, sideVars, toolVars>>

\* write_varint(&mut buf, value) on an empty buffer
WriteVarint ==
    /\ cPhase = "vinput"
    /\ vBuf' = write_varint(<<>>, vValue)
    /\ cPhase' = "vwritten"
    /\ UNCHANGED <<cPayload, cWidth, cData, cOrigin, cResult, vValue, vOut>>
    /\ UNCHANGED <<connVars, multi, sideVars, toolVars>>

\* read_varint(&mut Cursor::new(buf))
ReadVarint ==
    /\ cPhase = "vwritten"
    /\ vOut' = read_varint(vBuf, 0)
    /\ cPhase' = "vread"
    /\ UNCHANGED <<cPayload, cWidth, cData, cOrigin, cResult, vValue, vBuf>>
    /\ UNCHANGED <<connVars, multi, sideVars, toolVars>>

\* The bytes of a batch arrive in one buffer
BuildBatch ==
    /\ cPhase = "minput"
    /\ cData' = BatchBytes(multi.frames) \o multi.tail
    /\ cPhase' = "mbytes"
    /\ UNCHANGED <<cPayload, cWidth, cOrigin, cResult, vValue, vBuf, vOut,
                   multi>>
    /\ UNCHANGED <<connVars, sideVars, toolVars>>

\* PacketFrame::parse_multiple(&cData)
ParseMultiple ==
    /\ cPhase = "mbytes"
    /\ multi' = [multi EXCEPT !.out = parse_multiple(cData)]
    /\ cPhase' = "mparsed"
    /\ UNCHANGED <<cPayload, cWidth, cData, cOrigin, cResult, vValue, vBuf,
                   vOut>>
    /\ UNCHANGED <<connVars, sideVars, toolVars>>

CodecNext ==
    \/ ToBytes
    \/ \E w \in {1, 2, 4} : EncodeWidth(w)
    \/ \E k \in PrefixLens(cData) : Truncate(k)
    \/ \E magic \in RawMagics, wb \in RawWidths :
         \E lenbytes \in RawLengths(cPayload) : MakeRaw(magic, wb, lenbytes)
    \/ Decode
    \/ WriteVarint
    \/ ReadVarint
    \/ BuildBatch
    \/ ParseMultiple

CodecSpec == CodecInit /\ [][CodecNext]_vars

(***************************************************************************)
(* Properties.                                                             *)
(***************************************************************************)

\* C1 (Spec): once the frames handled on a fresh connection are exactly
\* policy request, valid 0x05, valid 0x07, valid 0x25, the connection is
\* Authenticated (a session ID is assigned and encryption is ready), the
\* task has not failed, and encryption became ready exactly once.
C1_HandshakeReachesAuthenticated ==
    scenario = 4 =>
        /\ session_id # None
        /\ encryption_ready
        /\ readyCount = 1
        /\ task \in {"reading", "closed"}

C1_Witness ==
    /\ scenario = 4 /\ nHandled = 4 /\ task = "reading"
    /\ session_id # None /\ encryption_ready /\ sent04 /\ sent06

\* C2 (CodecSpec): for a payload of at most MAX_PACKET_SIZE bytes,
\* from_bytes(new(payload).to_bytes()) succeeds with the same payload,
\* magic 0x5713 and a consumed count equal to the number of encoded bytes.
C2_RoundTrip ==
    (cPhase = "decoded" /\ cOrigin = "to_bytes"
        /\ Len(cPayload) <= MAX_PACKET_SIZE) =>
        /\ cResult.ok
        /\ cResult.packet.payload = cPayload
        /\ cResult.packet.magic = 22291
        /\ cResult.size = Len(cData)

C2_Witness ==
    /\ cPhase = "decoded" /\ cOrigin = "to_bytes"
    /\ Len(cPayload) = MAX_PACKET_SIZE
    /\ cResult.ok /\ cResult.size = MAX_PACKET_SIZE + 7

\* The run of the same connection code when the whole stream arrives in
\* one read
RefRun(s) ==
    process_buffer([buffer |-> s, h |-> HandlerInit, log |-> <<>>,
                    failed |-> "no"], CHOOSE r \in Rnd : TRUE)

\* a stream made of valid frames only
ValidStream(s) ==
    LET r == RefRun(s)
    IN  r.buffer = <<>> /\ EventsOf(r.log, "clear") = <<>> /\ r.failed = "no"

RECURSIVE SizeOfFirst(_, _)
SizeOfFirst(drains, k) ==
    IF k = 0 THEN 0 ELSE drains[k].size + SizeOfFirst(drains, k - 1)

Payloads_(drains) == [i \in 1..Len(drains) |-> drains[i].bytes]

\* C3 (FramingSpec): for a stream of valid frames cut into reads in any
\* way, the frames handled so far are the first frames of the one-read
\* run, in the same order, the frames handled by the last read are the
\* next ones of that run, and every byte not yet handled is still in the
\* buffer or in the socket; once everything is read, every frame has been
\* handled.
C3_CutsDoNotMatter ==
    ValidStream(stream) =>
        LET ref == EventsOf(RefRun(stream).log, "drain")
            mine == EventsOf(log, "drain")
        IN  /\ nHandled <= Len(ref)
            /\ Payloads_(mine) =
                 Payloads_(SubSeq(ref, nHandled - Len(mine) + 1, nHandled))
            /\ buffer \o pending =
                 SliceFrom(stream, SizeOfFirst(ref, nHandled))
            /\ (pending = <<>> => nHandled = Len(ref))

\* C4 (CodecSpec): from_bytes on a strict prefix of a valid encoded frame
\* reports the outcome the runtime treats as "wait for more data".
C4_PrefixNeedsMore ==
    (cPhase = "decoded" /\ cOrigin = "prefix") => IsIncomplete(cResult)

\* the events of l after position i up to the next drain or clear
RECURSIVE WritesAfter(_, _)
WritesAfter(l, i) ==
    IF i >= Len(l) \/ l[i + 1].ev # "write" THEN <<>>
    ELSE <<l[i + 1]>> \o WritesAfter(l, i + 1)

\* what handle_packet writes for a frame with this payload
ResponseTo(payload) ==
    handle_packet([buffer |-> <<>>,
                   h |-> [encryption_ready |-> encryption_ready,
                          session_id |-> session_id,
                          client_version |-> client_version,
                          aes_key |-> aes_key,
                          rsa |-> HandlerInit.rsa],
                   log |-> <<>>, failed |-> "no"],
                  PacketFrame_new(payload), CHOOSE r \in Rnd : TRUE).log

Bytes_(events) == [i \in 1..Len(events) |-> events[i].bytes]

\* C5 (FramingSpec): in every read, also one that brings several frames,
\* each frame removed from the buffer starts at or after the end of the
\* frame handled before it and is the frame the stream holds at that
\* place, and the writes that follow its removal, before the next frame
\* is removed, are exactly the response to that frame.
C5_Step ==
    LET l == log'
        read == Len(stream) - Len(pending')
        idx == {i \in 1..Len(l) : l[i].ev = "drain"}
        prev(i) == {j \in idx : j < i}
    IN  pending' # pending => \A i \in idx :
            /\ \A j \in prev(i) : l[i].at <= l[j].at - l[j].size
            /\ l[i].at <= behind + (Len(pending) - Len(pending'))
            /\ LET sent == SubSeq(stream, read - l[i].at + 1,
                                  read - l[i].at + l[i].size)
               IN  /\ from_bytes(sent).ok
                   /\ from_bytes(sent).packet.payload = l[i].bytes
            /\ Bytes_(WritesAfter(l, i)) = Bytes_(ResponseTo(l[i].bytes))

C5_ResponsesBeforeNextFrame == [][C5_Step]_vars

C5_Witness ==
    /\ Len(EventsOf(log, "drain")) >= 2
    /\ Len(EventsOf(log, "write")) >= 2
    /\ log[1].ev = "drain" /\ log[2].ev = "write"

\* C6 (Spec): a connection with a session ID assigned is encryption-ready.
C6_AuthenticatedImpliesReady ==
    session_id # None => encryption_ready

\* C7 (Spec): the 0x06 acknowledgment is sent, and encryption becomes
\* ready, only after the 0x04 EncryptionHandshake was sent on the
\* connection.
C7_AckOnlyAfterOffer ==
    (sent06 \/ encryption_ready) => sent04

\* C8 (FramingSpec): after a protocol violation in the buffer no later
\* frame of the connection is parsed or answered.
C8_ViolationClosesConnection ==
    ~afterViolation

\* the header conditions that make a byte string a protocol violation
BadMagic(data) == SubSeq(data, 1, 2) # <<19, 87>>

BadWidth(data) == data[3] \notin {1, 2, 4}

DeclaredTooLarge(data) ==
    /\ data[3] = 4 /\ Len(data) >= 7
    /\ \/ data[7] # 0
       \/ data[6] > 1
       \/ (data[6] = 1 /\ (data[4] # 0 \/ data[5] # 0))

\* C9 (CodecSpec): from_bytes rejects (no frame, and not the "wait for more
\* data" outcome) every input of at least 4 bytes with a wrong magic, a
\* width byte outside {1,2,4} or a declared length above 65536, and
\* accepts a frame whose declared length is exactly 65536 with all its
\* payload present.
C9_Rejections ==
    /\ (cPhase = "decoded" /\ Len(cData) >= 4
          /\ (BadMagic(cData) \/ BadWidth(cData) \/ DeclaredTooLarge(cData)))
         => (~cResult.ok /\ ~IsIncomplete(cResult))
    /\ (cPhase = "decoded" /\ cOrigin \in {"to_bytes", "width"}
          /\ Len(cPayload) = MAX_PACKET_SIZE)
         => (cResult.ok /\ cResult.packet.payload = cPayload)

C9_Witness ==
    /\ cPhase = "decoded" /\ cOrigin = "width"
    /\ Len(cPayload) = MAX_PACKET_SIZE + 1
    /\ DeclaredTooLarge(cData) /\ ~BadMagic(cData) /\ ~BadWidth(cData)
    /\ ~cResult.ok

\* C10 (CodecSpec): a frame encoded with any width w in {1,2,4} that can
\* hold the payload length decodes to the same payload with
\* consumed = 3 + w + length, also when a narrower width would do, and
\* read_varint(write_varint(v)) = v.
C10_AnyWidthDecodes ==
    /\ (cPhase = "decoded" /\ cOrigin = "width"
          /\ Len(cPayload) <= MAX_PACKET_SIZE) =>
         /\ cResult.ok
         /\ cResult.packet.payload = cPayload
         /\ cResult.size = 3 + cWidth + Len(cPayload)
    /\ cPhase = "vread" => (vOut.ok /\ vOut.value = vValue)

C10_Witness ==
    /\ cPhase = "decoded" /\ cOrigin = "width" /\ cWidth = 4
    /\ Len(cPayload) = MaxLen /\ MaxLen < 256
    /\ cResult.ok /\ cResult.size = 7 + MaxLen

RECURSIVE BatchSize(_)
BatchSize(frames) ==
    IF Len(frames) = 0 THEN 0
    ELSE 3 + frames[1].w + Len(frames[1].payload) + BatchSize(Tail(frames))

\* C11 (CodecSpec): parse_multiple on a buffer made of complete frames
\* followed by a tail that does not begin with a complete frame returns
\* exactly those frames, in order, with a consumed count equal to the sum
\* of their encoded sizes; the tail starts at that offset and the buffer is
\* the same after the call.
C11_ParseMultiple ==
    cPhase = "mparsed" =>
        /\ multi.out.ok
        /\ Len(multi.out.packets) = Len(multi.frames)
        /\ \A i \in 1..Len(multi.frames) :
              /\ multi.out.packets[i].payload = multi.frames[i].payload
              /\ multi.out.packets[i].magic = 22291
        /\ multi.out.consumed = BatchSize(multi.frames)
        /\ SliceFrom(cData, multi.out.consumed) = multi.tail
        /\ cData = BatchBytes(multi.frames) \o multi.tail

C11_Witness ==
    /\ cPhase = "mparsed"
    /\ Len(multi.frames) = MaxBatch
    /\ multi.frames[1].w = 2 /\ multi.frames[MaxBatch].w = 4
    /\ multi.tail = <<19, 87, 2, 1>>
    /\ Len(multi.out.packets) = MaxBatch

\* the positions of the log where a frame with this opcode is removed from
\* the buffer
DrainsOf(l, op) ==
    {i \in 1..Len(l) : /\ l[i].ev = "drain"
                       /\ Len(l[i].bytes) > 0
                       /\ l[i].bytes[1] = op}

\* C12 (Spec): after a framed 0x2F request is taken from the buffer the
\* server writes exactly two things before anything else happens: the
\* 110-byte XML policy ending in NUL with no frame header, then one frame
\* whose payload starts with 0x04.
C12_PolicyThenHandshake ==
    \A i \in DrainsOf(log, 47) :
        LET w == Bytes_(WritesAfter(log, i))
        IN  /\ Len(w) = 2
            /\ Len(w[1]) = 110
            /\ SubSeq(w[1], 1, 5) = <<60, 63, 120, 109, 108>>
            /\ w[1][110] = 0
            /\ from_bytes(w[2]).ok
            /\ from_bytes(w[2]).size = Len(w[2])
            /\ from_bytes(w[2]).packet.payload[1] = 4

C12_Witness ==
    /\ DrainsOf(log, 47) = {1}
    /\ Len(log) = 3
    /\ log[2].ev = "write" /\ log[3].ev = "write"
    /\ sent04 /\ task = "reading"

\* the client's stream opens with the unframed policy request and the
\* server has read all of the request
RawRequestRead ==
    /\ Len(stream) >= 22
    /\ SubSeq(stream, 1, 22) = POLICY_FILE_REQUEST
    /\ Len(stream) - Len(pending) >= 22

\* C13 (FramingSpec): once the login server has read the 22 unframed bytes
\* <policy-file-request/> at the start of a connection, it has written the
\* policy reply and the 0x04 EncryptionHandshake.
C13_RawPolicyAnswered ==
    RawRequestRead => sent04

\* C14 (PolicySpec): the test server handles a buffer that begins with
\* the unframed policy request without failing, and what it removes from
\* the buffer for the request is the 22 bytes, or the 22 bytes and the NUL
\* behind them.
C14_RawRequestConsumed ==
    /\ task # "panic"
    /\ \A i \in 1..Len(log) :
          log[i].ev = "raw" =>
              \/ log[i].bytes = POLICY_FILE_REQUEST
              \/ log[i].bytes = POLICY_FILE_REQUEST \o <<0>>

\* a 0x05 payload: 05, a sub-opcode, the key length L as 16-bit LE, L bytes
\* that RSA-decrypt to a 16-byte key, then any bytes
KeyOf(p) ==
    rsa_decrypt(STARTUP_KEYPAIR, Slice(p, 4, 4 + get_le(p, 2, 2)))

ValidKeyExchange(p) ==
    /\ Len(p) >= 4 /\ p[1] = 5
    /\ Len(p) >= 4 + get_le(p, 2, 2)
    /\ KeyOf(p).ok
    /\ Len(KeyOf(p).value) = 16

\* C15 (Spec): when a 0x05 frame carrying a well-formed encrypted 16-byte
\* key K has been handled, with or without trailing bytes, the only thing
\* written for it is the frame 13 57 01 01 06, the AES session key is K and
\* the connection is encryption-ready.
C15_KeyExchangeAccepted ==
    \A i \in DrainsOf(log, 5) :
        ValidKeyExchange(log[i].bytes) =>
            /\ Bytes_(WritesAfter(log, i)) = << <<19, 87, 1, 1, 6>> >>
            /\ aes_key = Some(KeyOf(log[i].bytes).value)
            /\ encryption_ready
            /\ task \in {"reading", "closed"}

C15_Witness ==
    /\ DrainsOf(log, 5) = {1}
    /\ log[1].bytes = K05bare
    /\ ValidKeyExchange(log[1].bytes)
    /\ aes_key = Some(CLIENT_KEY)
    /\ sent06

\* a well-formed 0x05 payload whose key bytes do not RSA-decrypt
FailedKeyExchange(p) ==
    /\ Len(p) >= 5 /\ p[1] = 5
    /\ Len(p) >= 4 + get_le(p, 2, 2)
    /\ ~KeyOf(p).ok

\* C16 (Spec): a read in which a 0x05 frame fails RSA decryption writes
\* nothing for that frame, leaves encryption_ready and the AES key as they
\* were, and leaves the connection task reading.
C16_Step ==
    pending' # pending =>
        \A i \in DrainsOf(log', 5) :
            FailedKeyExchange(log'[i].bytes) =>
                /\ WritesAfter(log', i) = <<>>
                /\ encryption_ready' = encryption_ready
                /\ aes_key' = aes_key
                /\ task' = "reading"

C16_FailedKeyExchangeKeepsOpen == [][C16_Step]_vars

C16_Witness ==
    /\ DrainsOf(log, 5) = {1}
    /\ FailedKeyExchange(log[1].bytes)
    /\ Len(log) = 1
    /\ nHandled >= 3
    /\ encryption_ready /\ aes_key = Some(CLIENT_KEY)
    /\ task = "reading"

\* the payload of the frame w, <<>> when w is not exactly one frame
PayloadOfFrame(w) ==
    IF from_bytes(w).ok /\ from_bytes(w).size = Len(w)
    THEN from_bytes(w).packet.payload ELSE <<>>

\* 0A, session ID as 4 LE bytes, 16 GUID bytes, 01 00, 01, 01, a length
\* byte n, n characters of the remote IP, AC F6
IsConnectionSuccess(p, sid, ip) ==
    /\ Len(p) = 28 + Len(ip)
    /\ p[1] = 10
    /\ SubSeq(p, 2, 5) = <<sid.lo % 256, sid.lo \div 256,
                           sid.hi % 256, sid.hi \div 256>>
    /\ SubSeq(p, 22, 25) = <<1, 0, 1, 1>>
    /\ p[26] = Len(ip)
    /\ SubSeq(p, 27, 26 + Len(ip)) = ip
    /\ SubSeq(p, 27 + Len(ip), 28 + Len(ip)) = <<172, 246>>

\* C17 (Spec): when a 0x07 frame with a payload of at least 23 bytes has
\* been handled, the client version is the 16-bit LE value of payload
\* bytes 1-2, a session ID is assigned, and the only thing written for the
\* frame is one frame with the ConnectionSuccess payload carrying that
\* session ID and the remote IP.
C17_VersionCheckReply ==
    \A i \in DrainsOf(log, 7) :
        Len(log[i].bytes) >= 23 =>
            /\ client_version
                 = Some([hi |-> 0,
                         lo |-> log[i].bytes[2] + 256 * log[i].bytes[3]])
            /\ session_id # None
            /\ Len(WritesAfter(log, i)) = 1
            /\ IsConnectionSuccess(
                   PayloadOfFrame(WritesAfter(log, i)[1].bytes),
                   session_id[1], <<49, 50, 55, 46, 48, 46, 48, 46, 49>>)

C17_Witness ==
    /\ DrainsOf(log, 7) = {1}
    /\ Len(log[1].bytes) = 23
    /\ session_id = Some([hi |-> 57005, lo |-> 48879])
    /\ Len(log) = 2 /\ log[2].ev = "write" /\ Len(log[2].bytes) = 41

\* C18 (Spec): when a heartbeat frame whose payload is 1B s0 s1 has been
\* handled, the only thing written for it is one frame whose 17-byte
\* payload is 1D s0 s1 followed by 14 zero bytes.
C18_HeartbeatEchoesSequence ==
    \A i \in DrainsOf(log, 27) :
        Len(log[i].bytes) = 3 =>
            /\ Len(WritesAfter(log, i)) = 1
            /\ PayloadOfFrame(WritesAfter(log, i)[1].bytes)
                 = <<29, log[i].bytes[2], log[i].bytes[3]>> \o Zeros(14)

\* the frames handled in the last read that were envelopes (0x25, 0x26)
EnvelopeDrains(l) == DrainsOf(l, 37) \cup DrainsOf(l, 38)

\* C19 (Spec): a read that handles one 0x25 or 0x26 frame while the
\* connection is not encryption-ready writes nothing, leaves the
\* encryption flag, the AES key, the session ID and the client version as
\* they were, and leaves the connection reading.
C19_Step ==
    (pending' # pending /\ ~encryption_ready) =>
        \A i \in EnvelopeDrains(log') :
            i = 1 =>
                /\ WritesAfter(log', i) = <<>>
                /\ encryption_ready' = encryption_ready
                /\ aes_key' = aes_key
                /\ session_id' = session_id
                /\ client_version' = client_version
                /\ task' = "reading"

C19_EnvelopeBeforeReadyIgnored == [][C19_Step]_vars

C19_Witness ==
    /\ EnvelopeDrains(log) = {1}
    /\ log[1].bytes[1] = 38
    /\ Len(log) = 1
    /\ sent04 /\ ~encryption_ready /\ aes_key = None
    /\ task = "reading"

\* the envelope payload p with its outer opcode replaced by 0x25
As0x25(p) == <<37>> \o Tail(p)

\* C20 (Spec): when a 0x26 envelope has been handled in an
\* encryption-ready connection, what was written for it is what the
\* server writes for the same envelope with outer opcode 0x25.
C20_Envelope26RoutedAs25 ==
    (encryption_ready /\ task \in {"reading", "closed"}) =>
        \A i \in DrainsOf(log, 38) :
            Bytes_(WritesAfter(log, i))
                = Bytes_(ResponseTo(As0x25(log[i].bytes)))

\* the handler of scenario S5: registered at inner opcode 0x2222, it
\* returns its input with the payload behind the opcode reversed
ECHO_OPCODE == 8738

Reversed(q) == [i \in 1..Len(q) |-> q[Len(q) + 1 - i]]

EchoReply(inner) == SubSeq(inner, 1, 2) \o Reversed(SliceFrom(inner, 2))

\* the inner message of the envelope payload p under the connection's key
InnerOf(p) == decrypt_packet_0x25(aes_key, p)

\* the envelopes handled in the last read whose inner message is for the
\* registered handler at ECHO_OPCODE
EchoDrains(l) ==
    {i \in DrainsOf(l, 37) :
        /\ InnerOf(l[i].bytes).ok
        /\ Len(InnerOf(l[i].bytes).value) >= 2
        /\ get_le(InnerOf(l[i].bytes).value, 0, 2) = ECHO_OPCODE}

\* C21 (EnvelopeSpec): when an envelope whose inner message is for the
\* registered handler at 0x2222 has been handled in an encryption-ready
\* connection, exactly one frame was written for it, its payload is
\* 25 01 01 20 followed by ciphertext, and the ciphertext decrypts under
\* the session key to the handler's reply (inner 22 22 04 03 02 01 gives
\* 22 22 01 02 03 04).
C21_HandlerReplyEncrypted ==
    (encryption_ready /\ task \in {"reading", "closed"}) =>
        \A i \in EchoDrains(log) :
            /\ Len(WritesAfter(log, i)) = 1
            /\ \E w \in {PayloadOfFrame(WritesAfter(log, i)[1].bytes)} :
                  /\ Len(w) >= 4
                  /\ SubSeq(w, 1, 4) = <<37, 1, 1, 32>>
                  /\ decrypt_aes_ecb(aes_key, SliceFrom(w, 4))
                       = [ok |-> TRUE,
                          value |-> EchoReply(InnerOf(log[i].bytes).value)]

\* the ciphertext ct cannot be decrypted to padded data under key: its
\* length is not a nonzero multiple of 16, or the last decrypted byte is
\* not a PKCS#7 padding length
AesUndecryptable(key, ct) ==
    \/ Len(ct) = 0
    \/ Len(ct) % AES_BLOCK # 0
    \/ aes_decrypt_blocks(key, ct)[Len(ct)] \notin 1..AES_BLOCK

\* the envelopes handled in the last read whose ciphertext cannot be
\* decrypted under the connection's key
UndecryptableDrains(l) ==
    {i \in DrainsOf(l, 37) :
        /\ Len(l[i].bytes) >= 4
        /\ AesUndecryptable(aes_key[1], SliceFrom(l[i].bytes, 4))}

\* C22 (EnvelopeSpec): once an envelope whose ciphertext cannot be
\* decrypted has been handled in an encryption-ready connection, the
\* connection is no longer reading: the failure has closed it.
C22_AesFailureCloses ==
    (encryption_ready /\ aes_key # None /\ UndecryptableDrains(log) # {})
        => task # "reading"

\* what connection i holds of its own: the AES key of its engine, its
\* encryption flag, its session ID and its buffer
OwnState(cs, objs, i) ==
    IF cs[i].handler = None THEN None
    ELSE Some([aes_key |-> objs[cs[i].handler.crypto].aes_key,
               encryption_ready |-> cs[i].handler.encryption_ready,
               session_id |-> cs[i].handler.session_id,
               buffer |-> cs[i].buffer])

\* the step is a step of connection i: its task or its socket moved
ActedIn(i) ==
    \/ conns'[i].state # conns[i].state
    \/ conns'[i].pending # conns[i].pending
    \/ conns'[i].nSent # conns[i].nSent

\* C23 (ServerSpec): a step of one connection leaves the AES key, the
\* encryption flag, the session ID and the buffer of the other connection
\* as they were and leaves the engine behind main's Arc as it was (its
\* keypair unchanged, no AES key); no two handlers use the same engine and
\* none uses main's; and the public keys advertised in the 0x04 frames of
\* the connections are one and the same key, that of main's keypair.
C23_Step ==
    /\ \A i \in ConnIds : ActedIn(i) =>
          \A j \in ConnIds \ {i} :
              OwnState(conns', cryptos', j) = OwnState(conns, cryptos, j)
    /\ cryptos'[SERVER_CRYPTO] = cryptos[SERVER_CRYPTO]
    /\ cryptos'[SERVER_CRYPTO].aes_key = None
    /\ \A i \in ConnIds : conns'[i].handler # None =>
          /\ conns'[i].handler.crypto # SERVER_CRYPTO
          /\ cryptos'[conns'[i].handler.crypto].rsa
               = cryptos[SERVER_CRYPTO].rsa
          /\ \A j \in ConnIds \ {i} : conns'[j].handler # None =>
                conns'[j].handler.crypto # conns'[i].handler.crypto
    /\ \A i \in ConnIds : conns'[i].advertised # None =>
          conns'[i].advertised
            = Some(RSA_PUBLIC_DER(cryptos[SERVER_CRYPTO].rsa[1]))

C23_ConnectionsIsolated == [][C23_Step]_vars

C23_Witness ==
    /\ conns[1].state = "reading" /\ conns[2].state = "reading"
    /\ conns[1].handler.encryption_ready
    /\ conns[2].handler.encryption_ready
    /\ cryptos[conns[1].handler.crypto].aes_key = Some(ClientKeyOf(1))
    /\ cryptos[conns[2].handler.crypto].aes_key = Some(ClientKeyOf(2))
    /\ conns[1].handler.session_id # None
    /\ conns[2].handler.session_id = None
    /\ conns[1].advertised # None
    /\ conns[1].advertised = conns[2].advertised
    /\ conns[2].buffer # <<>>
    /\ cryptos[SERVER_CRYPTO].rsa = Some(85)

\* C24 (EngineSpec): with a 16-byte session key installed, the ciphertext
\* of every plaintext is longer than the plaintext by 1 to 16 bytes and a
\* whole number of blocks, and decrypting it gives the plaintext back.
C24_AesRoundTrip ==
    /\ engine.call \in {"decrypt_encrypted", "roundtrip_done"} =>
          /\ engine.encrypted[1].ok
          /\ Len(engine.encrypted[1].value) % AES_BLOCK = 0
          /\ Len(engine.encrypted[1].value) > Len(engine.input)
    /\ engine.call = "roundtrip_done" =>
          engine.result = Some([ok |-> TRUE, value |-> engine.input])

C24_Witness ==
    /\ engine.call = "roundtrip_done"
    /\ Len(engine.input) = AES_BLOCK
    /\ engine.input[AES_BLOCK] = AES_BLOCK
    /\ Len(engine.encrypted[1].value) = 2 * AES_BLOCK
    /\ engine.result = Some([ok |-> TRUE, value |-> engine.input])

\* C25 (EngineSpec): with a session key installed, decrypt_aes_ecb of a
\* zero-byte input, and of any input whose length is not a multiple of 16,
\* fails with the invalid-length error.
C25_AesLengthRequired ==
    (/\ engine.call = "decrypt_done"
     /\ engine.aes_key # None
     /\ \/ Len(engine.input) = 0
        \/ Len(engine.input) % AES_BLOCK # 0)
    => engine.result = Some(Err("Invalid AES data length"))

\* the last byte of the blocks decrypt_aes_ecb decrypted
LastDecrypted ==
    aes_decrypt_blocks(engine.aes_key[1], engine.input)[Len(engine.input)]

\* C26 (EngineSpec): decrypt_aes_ecb of whole blocks whose decrypted data
\* ends in a byte outside 1..16 fails instead of returning data, and when
\* the data ends in 16 the whole last block is removed.
C26_PaddingValidated ==
    (/\ engine.call = "decrypt_done"
     /\ engine.aes_key # None
     /\ Len(engine.input) > 0
     /\ Len(engine.input) % AES_BLOCK = 0)
    => /\ LastDecrypted \notin 1..AES_BLOCK => ~engine.result[1].ok
       /\ LastDecrypted = AES_BLOCK =>
            engine.result =
              Some([ok |-> TRUE,
                    value |-> SubSeq(aes_decrypt_blocks(engine.aes_key[1],
                                                         engine.input),
                                     1, Len(engine.input) - AES_BLOCK)])

\* C27 (EngineSpec): decrypt_session_key_rsa of a 16-byte session key k
\* encrypted under the engine's own public key returns a plaintext whose
\* first 16 bytes are k and leaves exactly k installed as the AES key; when
\* the call fails the installed AES key is the one from before the call.
C27_SessionKeyExchange ==
    engine.call = "rsa_done" =>
      /\ \A k \in AesKeys :
            engine.input = rsa_encrypt(engine.rsa[1], k) =>
              /\ engine.result[1].ok
              /\ Len(engine.result[1].value) >= 16
              /\ Slice(engine.result[1].value, 0, 16) = k
              /\ engine.aes_key = Some(k)
      /\ ~engine.result[1].ok => engine.aes_key = engine.before[1]

C27_Witness ==
    /\ engine.call = "rsa_done"
    /\ engine.rsa = Some(85)
    /\ engine.before = Some(Some(CLIENT_KEY))
    /\ \E k \in AesKeys \ {CLIENT_KEY} :
         /\ engine.input = rsa_encrypt(85, k)
         /\ engine.result = Some([ok |-> TRUE, value |-> k])
         /\ engine.aes_key = Some(k)

\* the last call was a dispatch (nothing was registered since)
Dispatched == dLast # None /\ dLast[1].op = "dispatch"

Outcomes == {"messages_success", "messages_failed", "messages_unhandled"}

\* one call on the dispatcher, as the counters see it
C30_Step ==
    LET s == dispatcher.stats
        t == dispatcher'.stats
        op == dLast'[1].op
    IN  /\ op = "dispatch" =>
              /\ t.messages_processed = s.messages_processed + 1
              /\ \E c \in Outcomes :
                    /\ t[c] = s[c] + 1
                    /\ \A o \in Outcomes \ {c} : t[o] = s[o]
        /\ op = "reset_stats" => t = DispatcherStats_default
        /\ op # "reset_stats" =>
              \A c \in Outcomes \cup {"messages_processed"} : t[c] >= s[c]

\* C30 (DispatchSpec): after any sequence of dispatch and reset_stats calls
\* messages_processed is the sum of the three other counters; a dispatch
\* raises messages_processed and exactly one other counter by one; no
\* counter decreases, except that reset_stats sets all four to zero.
C30_CountersAddUp ==
    /\ [](dispatcher.stats.messages_processed =
            dispatcher.stats.messages_success
            + dispatcher.stats.messages_failed
            + dispatcher.stats.messages_unhandled)
    /\ [][C30_Step]_vars

C30_Witness ==
    /\ dLast # None
    /\ dLast[1].op = "reset_stats"
    /\ dLast[1].stats = [messages_processed |-> 3, messages_success |-> 1,
                         messages_failed |-> 1, messages_unhandled |-> 1]
    /\ dispatcher.stats = DispatcherStats_default

\* the last call was a dispatch to a registered handler that returned Err
HandlerFailed ==
    /\ Dispatched
    /\ dLast[1].packet_id \in DOMAIN dLast[1].registry
    /\ ~dLast[1].result[1].ok

\* what the handler registered for packet_id returns, Ok(None) without one
Handled(packet_id, data) ==
    IF has_handler(dispatcher, packet_id)
    THEN GameMessageHandler_handle(dispatcher.registry[packet_id],
                                   packet_id, data, context).result
    ELSE [ok |-> TRUE, value |-> None]

\* a dispatch right after a handler failed
C29_Step ==
    (HandlerFailed /\ dLast'[1].op = "dispatch") =>
       /\ dLast'[1].result =
            Some(Handled(dLast'[1].packet_id, dLast'[1].data))
       /\ dispatcher'.stats.messages_processed =
            dispatcher.stats.messages_processed + 1

C31_Step ==
    LET before == dispatcher.registry
        after == dispatcher'.registry
        op == dLast'[1].op
    IN  /\ op = "register_handler" =>
              LET h == dLast'[1].result[1]
              IN  /\ has_handler(dispatcher', h.opcode)
                  /\ after[h.opcode] = h
                  /\ \A o \in DispatchOpcodes \ {h.opcode} :
                        /\ has_handler(dispatcher', o)
                             <=> has_handler(dispatcher, o)
                        /\ has_handler(dispatcher, o) => after[o] = before[o]
        /\ op # "register_handler" => after = before

\* C31 (DispatchSpec): the registry of a new dispatcher is empty; a
\* register call makes its handler the one of the opcode the handler
\* reports and changes no other opcode; every handler sits at the opcode
\* it reports; dispatch and reset_stats leave the registry as it was.
C31_RegistryKeyedByOpcode ==
    /\ dispatcher.registry = <<>>
    /\ [](\A o \in DOMAIN dispatcher.registry :
            dispatcher.registry[o].opcode = o)
    /\ [][C31_Step]_vars

C31_Witness ==
    /\ dLast # None
    /\ dLast[1].op = "register_handler"
    /\ has_handler(dispatcher, OTHER_OPCODE)
    /\ SYSTEM_MESSAGE \in DOMAIN dLast[1].registry
    /\ dLast[1].registry[SYSTEM_MESSAGE].name = "SystemMessageHandler"
    /\ dispatcher.registry[SYSTEM_MESSAGE].name = "TestHandler"
    /\ ~has_handler(dispatcher, UNKNOWN_OPCODE)
    /\ dispatcher.stats.messages_success = 1

\* the outer opcodes handle_packet has an arm for, other than 0x01 and 0x1C
ActiveOpcodes == {47, 5, 7, 27, 37, 38}

\* the frames taken from the buffer whose payload is empty or whose opcode
\* is 0x1C, 0x01 or one without an arm
QuietDrains(l) ==
    {i \in 1..Len(l) :
        /\ l[i].ev = "drain"
        /\ \/ Len(l[i].bytes) = 0
           \/ l[i].bytes[1] \notin ActiveOpcodes}

\* a read that handles one such frame
C32_Step ==
    pending' # pending =>
        \A i \in QuietDrains(log') :
            /\ WritesAfter(log', i) = <<>>
            /\ encryption_ready' = encryption_ready
            /\ aes_key' = aes_key
            /\ session_id' = session_id
            /\ client_version' = client_version
            /\ task' = "reading"

\* C32 (QuietSpec): handling a frame whose payload is empty or whose outer
\* opcode is 0x1C, 0x01 or unknown to the server writes nothing, leaves
\* the encryption flag, the AES key, the session ID and the client version
\* as they were, and leaves the connection reading.
C32_QuietFramesChangeNothing == [][C32_Step]_vars

C32_Witness ==
    /\ QuietDrains(log) = {1}
    /\ log[1].bytes = KUnknown
    /\ Len(log) = 1
    /\ encryption_ready
    /\ session_id # None
    /\ task = "reading"

\* the bytes written second after the policy request at log index i
HandshakeAfter(l, i) == Bytes_(WritesAfter(l, i))[2]

\* C33 (Spec): the handshake written after a policy request is 13 57, the
\* width byte 02, the payload length as 2 LE bytes and a payload of 04,
\* the ten settings as LE 32-bit fields in their order, the DER length as
\* 2 LE bytes and the DER public key; from_bytes of these bytes returns
\* that payload and consumes all of them.
C33_HandshakeLayout ==
    \A i \in DrainsOf(log, 47) :
        /\ Len(WritesAfter(log, i)) = 2
        /\ LET b == HandshakeAfter(log, i)
               payload == SliceFrom(b, 5)
               der == RSA_PUBLIC_DER(STARTUP_KEYPAIR)
           IN  /\ SubSeq(b, 1, 3) = <<19, 87, 2>>
               /\ get_le(b, 3, 2) = Len(payload)
               /\ Len(payload) = 1 + 40 + 2 + Len(der)
               /\ payload[1] = 4
               /\ \A f \in 1..10 :
                     get_u32_le(payload, 1 + 4 * (f - 1))
                       = U32(ProudNetSettings_default[f])
               /\ get_le(payload, 41, 2) = Len(der)
               /\ SliceFrom(payload, 43) = der
               /\ payload[44] = 48
               /\ from_bytes(b).ok
               /\ from_bytes(b).packet.payload = payload
               /\ from_bytes(b).size = Len(b)

C33_Witness ==
    /\ DrainsOf(log, 47) = {1}
    /\ Len(log) = 3
    /\ Len(HandshakeAfter(log, 1)) = 188
    /\ encryption_ready

\* no patch is applied in the executable e
Unpatched(e) == \A i \in 1..Len(PATCHES) : ~is_patch_applied(e, i)

\* C34 (PatcherSpec): starting from an unpatched executable, after any
\* patch commands with backup and restore commands, the executable differs
\* from the original only if a backup exists, the backup holds the
\* original bytes, and a restore leaves the original executable.
C34_BackupHoldsOriginal ==
    (Unpatched(files.original) /\ ~files.no_backup) =>
       /\ files.exe # Some(files.original) => files.backup # None
       /\ files.backup # None => files.backup = Some(files.original)
       /\ (files.last # None /\ files.last.cmd = "restore"
             /\ files.last.ok) => files.exe = Some(files.original)

\* C35 (EnvelopeSpec): an encryption-ready connection has a 16-byte AES
\* session key installed in its crypto engine; a 0x05 frame whose
\* ciphertext decrypts to fewer than 16 bytes is not acknowledged with 0x06.
C35_ReadyImpliesSessionKey ==
    /\ encryption_ready => (aes_key # None /\ Len(aes_key[1]) = 16)
    /\ \A i \in DrainsOf(log, 5) :
          (KeyOf(log[i].bytes).ok /\ Len(KeyOf(log[i].bytes).value) < 16)
              => Bytes_(WritesAfter(log, i)) = <<>>

\* the envelopes handled in the last read whose inner message decrypts
\* under the connection's key to at least 2 bytes with opcode 0x0000
InitialDrains(l) ==
    {i \in DrainsOf(l, 37) :
        /\ InnerOf(l[i].bytes).ok
        /\ Len(InnerOf(l[i].bytes).value) >= 2
        /\ get_le(InnerOf(l[i].bytes).value, 0, 2) = 0}

\* bytes from..to-1 of d when d holds them all, the default otherwise
FieldOr(d, from, to, default) ==
    IF Len(d) >= to THEN Slice(d, from, to) ELSE default

\* C36 (EnvelopeSpec): when an envelope whose inner message has opcode
\* 0x0000 has been handled in an encryption-ready connection, no index was
\* out of range, exactly one 0x25 envelope was written for it, and its
\* inner message is 26 bytes starting 00 00 in which every client field
\* that is fully present is copied and every other field has its default.
C36_InitialHandshakeAnswered ==
    (encryption_ready /\ aes_key # None) =>
        \A i \in InitialDrains(log) :
            /\ task # "panic"
            /\ Len(WritesAfter(log, i)) = 1
            /\ \E w \in {PayloadOfFrame(WritesAfter(log, i)[1].bytes)} :
               \E d \in {InnerOf(log[i].bytes).value} :
                  /\ Len(w) >= 4
                  /\ SubSeq(w, 1, 4) = <<37, 1, 1, 32>>
                  /\ \E r \in {decrypt_aes_ecb(aes_key, SliceFrom(w, 4))} :
                        /\ r.ok
                        /\ Len(r.value) = 26
                        /\ Slice(r.value, 0, 2) = <<0, 0>>
                        /\ Slice(r.value, 2, 4) = FieldOr(d, 2, 4, <<1, 225>>)
                        /\ Slice(r.value, 4, 6) = FieldOr(d, 4, 6, <<46, 16>>)
                        /\ Slice(r.value, 6, 8) = FieldOr(d, 6, 8, <<0, 33>>)
                        /\ Slice(r.value, 12, 14)
                             = FieldOr(d, 12, 14, <<0, 1>>)
                        /\ Slice(r.value, 14, 18)
                             = FieldOr(d, 14, 18, <<0, 0, 0, 1>>)
                        /\ Slice(r.value, 18, 22)
                             = FieldOr(d, 18, 22, <<7, 2, 37, 0>>)
                        /\ Slice(r.value, 22, 26)
                             = FieldOr(d, 22, 26, <<128, 63, 0, 0>>)

\* the payload length declared by the header of b, whose width byte is
\* 1, 2 or 4 and whose length field is whole
DeclaredLength(b) ==
    IF b[3] = 4 THEN get_u32_le(b, 3) ELSE U32(get_le(b, 3, b[3]))

\* b begins with 13 57 and is a strict prefix of one frame whose declared
\* payload length is at most 65536
StrictFramePrefix(b) ==
    /\ SubSeq(b, 1, 2) = <<19, 87>>
    /\ b[3] \in {1, 2, 4}
    /\ Len(b) >= 3 + b[3]
    /\ ~U32Gt(DeclaredLength(b), MAX_PACKET_SIZE)
    /\ Len(b) < 3 + b[3] + AsUsize(DeclaredLength(b))

\* C37 (FramingSpec): whenever process_buffer has returned normally the
\* buffer is empty, or shorter than 4 bytes, or a strict prefix of one
\* frame that declares at most 65536 payload bytes; it holds no complete
\* frame and no more than 7 + 65536 bytes.
C37_BufferHoldsOnlyAPrefix ==
    task \in {"reading", "closed"} =>
        /\ Len(buffer) < 4 \/ StrictFramePrefix(buffer)
        /\ ~from_bytes(buffer).ok
        /\ Len(buffer) <= 7 + MAX_PACKET_SIZE

C37_Witness ==
    /\ task = "reading"
    /\ Len(buffer) >= 4
    /\ StrictFramePrefix(buffer)
    /\ Len(EventsOf(log, "drain")) >= 1

\* every frame removed from a buffer of len bytes has at least 4 bytes and
\* is taken from what the frames before it left
RECURSIVE Shrinks(_, _)
Shrinks(drains, len) ==
    \/ Len(drains) = 0
    \/ /\ drains[1].at = len
       /\ drains[1].size >= MIN_PACKET_SIZE
       /\ drains[1].size <= len
       /\ Shrinks(Tail(drains), len - drains[1].size)

\* C38 (FramingSpec): on the buffer of every read process_buffer and
\* parse_multiple come to an end in which every iteration but the last
\* removed a decoded frame of at least 4 bytes from what was left, a
\* clearing of the buffer is the last thing that happens, and four times
\* the number of frames is at most the length of the buffer.
C38_Step ==
    pending' # pending =>
        \E data \in {buffer \o SubSeq(pending, 1,
                                      Len(pending) - Len(pending'))} :
          /\ Shrinks(EventsOf(log', "drain"), Len(data))
          /\ MIN_PACKET_SIZE * Len(EventsOf(log', "drain")) <= Len(data)
          /\ \A i \in 1..Len(log') :
                log'[i].ev = "clear" => i = Len(log')
          /\ \E m \in {parse_multiple(data)} :
                /\ m.ok
                /\ MIN_PACKET_SIZE * Len(m.packets) <= m.consumed
                /\ m.consumed <= Len(data)
                /\ Len(EventsOf(log', "drain")) <= Len(m.packets)

C38_LoopsTerminate == [][C38_Step]_vars

C38_Witness ==
    /\ Len(EventsOf(log, "drain")) >= 1
    /\ Len(log) >= 2
    /\ log[1].size = MIN_PACKET_SIZE + 1
    /\ log[Len(log)].ev = "clear"

\* the 0x07 frames handled in the last read whose payload is shorter than
\* 23 bytes
ShortVersionDrains(l) == {i \in DrainsOf(l, 7) : Len(l[i].bytes) < 23}

\* the connection of this state after a read of n bytes that a heartbeat
\* frame follows in the same buffer
ArrivedWithNext(n) ==
    [Arrived(n) EXCEPT
        !.buffer = @ \o to_bytes(PacketFrame_new(KHeartbeat))]

\* C39 (Spec): a read in which a 0x07 frame with a payload under 23 bytes
\* is handled leaves the session ID, the client version, the encryption
\* flag and the AES key as they were, writes nothing for the frame and
\* ends the connection task with an error; a frame behind it in the same
\* buffer is not handled, and a task that has ended handles nothing more.
C39_Step ==
    /\ (pending' # pending /\ ShortVersionDrains(log') # {}) =>
          /\ session_id' = session_id
          /\ client_version' = client_version
          /\ encryption_ready' = encryption_ready
          /\ aes_key' = aes_key
          /\ ShortVersionDrains(log') = {Len(log')}
          /\ ~Wrote(log', 10)
          /\ task' = "error"
          /\ \A rnd \in Rnd :
               \E c \in {process_buffer(
                            ArrivedWithNext(Len(pending) - Len(pending')),
                            rnd)} :
                  /\ c.failed = "error"
                  /\ Len(c.log) = 1
                  /\ c.buffer = to_bytes(PacketFrame_new(KHeartbeat))
                  /\ c.h.session_id = session_id
    /\ task = "error" =>
          /\ task' = "error"
          /\ log' = log /\ nHandled' = nHandled /\ buffer' = buffer
          /\ session_id' = session_id
          /\ client_version' = client_version

RmiTooShort(data) ==
    \/ Len(data) < HEADER_SIZE
    \/ UsizeLt(Len(data) - HEADER_SIZE, get_u32_le(data, 4))

\* C40 (RmiSpec): RmiMessage::parse never panics; it returns an error
\* whenever the input holds fewer than 16 + length bytes, for every value
\* of the length field; and when it succeeds the payload is exactly the
\* length bytes behind the 16-byte header.
C40_ParseRejectsShortInput ==
    rmi.result # None =>
        \E r \in {rmi.result[1]} :
            /\ r.outcome # "panic"
            /\ RmiTooShort(rmi.data) => r.outcome = "err"
            /\ r.outcome = "ok" =>
                  /\ r.value.length.hi = 0
                  /\ Len(r.value.payload) = r.value.length.lo
                  /\ r.value.payload
                       = SubSeq(rmi.data, HEADER_SIZE + 1,
                                HEADER_SIZE + r.value.length.lo)

====
